---------------------------- MODULE Spec2Model ----------------------------
(***************************************************************************)
(* A model of the flowchart client (src/flowchart.js): the in-memory graph *)
(* store (nodeMap, parentMap, nodeStats, stableRootId), the visibility     *)
(* filter, the recursive tree renderer with its visited set, the retrying  *)
(* network wrapper with its shared retry counter, and the asynchronous     *)
(* handlers, each cut at its awaits into the steps the event loop runs     *)
(* atomically.                                                             *)
(*                                                                         *)
(* Node ids are the naturals of Ids; their numeric order stands for the    *)
(* lexicographic order Array.prototype.sort() uses on the id strings.      *)
(* Null (0) stands for null / undefined / the empty string.                *)
(***************************************************************************)
EXTENDS Naturals, Sequences, FiniteSets, TLC

VARIABLES
    nodeMap,          \* flowchart.js:27  id -> node record (own keys of the object)
    keyOrder,         \* insertion order of nodeMap's keys (for..in, Object.keys)
    parentMap,        \* flowchart.js:28  child id -> parent id
    nodeStats,        \* flowchart.js:29  id -> [inboundCount, outboundCount]
    stableRootId,     \* flowchart.js:30
    renderedNodes,    \* flowchart.js:35  the visited set of the renderer
    singleNodeMode,   \* flowchart.js:36
    retryCount,       \* flowchart.js:25  shared by all fetchWithRetry calls
    connectionFilter, \* value of #connection-filter-select
    statusFilter,     \* value of #status-filter-select
    view,             \* content of #tree-content-wrapper
    messages,         \* kinds of message showMessage has displayed so far
    redirect,         \* TRUE once the redirect to index.html is scheduled
    tasks,            \* the asynchronous handler invocations in flight
    linkModal,        \* the search-and-link dialog: its parent id, result list, status line
    infoModal,        \* the info dialog: its node, the links it offers to delete, its state
    gestures,         \* how many forms and dialogs the user has opened so far
    srvTree,          \* backend: the list GET /tree answers with
    srvClicks,        \* backend: the (source, target) clicks POST /link/click recorded
    page,             \* "setup" before the script runs, then "live", "hung", "gone"
    nodeToFocusId,    \* flowchart.js:32
    preserveViewport, \* flowchart.js:33
    lastViewport,     \* TRUE when localStorage holds a 'lastViewport' snapshot
    timers,           \* the pending setTimeout callbacks that call focusNode
    lastFocus,        \* the argument of the latest focusNode call
    treeCache,        \* part_000:1093  localStorage's 'tree_cache' entry; no data: no entry
    clock             \* Date.now(), in milliseconds since the page was opened

vars == <<nodeMap, keyOrder, parentMap, nodeStats, stableRootId, renderedNodes,
          singleNodeMode, retryCount, connectionFilter, statusFilter, view,
          messages, redirect, tasks, linkModal, infoModal, gestures, srvTree,
          srvClicks, page, nodeToFocusId, preserveViewport, lastViewport, timers,
          lastFocus, treeCache, clock>>

\* the cached tree and the time its age is measured against
cacheVars == <<treeCache, clock>>

\* the focus request, the viewport switch and what they drive
focusVars == <<nodeToFocusId, preserveViewport, lastViewport, timers, lastFocus>>

-----------------------------------------------------------------------------
(* Bounds and program constants                                            *)

MAX_RETRIES == 5

MaxEdges == 3      \* children entries in the backend's tree, all nodes together
MaxTasks == 2      \* handler invocations in flight at once
MaxGestures == 2   \* forms and dialogs the user opens and submits on the page
MaxFaultyGestures == 1   \* the same, on a network that drops requests

Ids == {1, 2, 3}
Null == 0
Tasks == 1..MaxTasks

Statuses == {"New", "Completed"}

-----------------------------------------------------------------------------
(* Sequence helpers                                                        *)

Range(s) == {s[i] : i \in DOMAIN s}

RECURSIVE Insert(_, _)
Insert(x, s) ==
    IF s = <<>> THEN <<x>>
    ELSE IF x <= Head(s) THEN <<x>> \o s
    ELSE <<Head(s)>> \o Insert(x, Tail(s))

\* sort() left out: the children are rendered in the order they are stored in
KeepOrder(s) == s

\* (node.children || []).slice().sort(): a sorted copy, duplicates kept
RECURSIVE SortIds(_)
SortIds(s) == IF s = <<>> THEN <<>> ELSE Insert(Head(s), SortIds(Tail(s)))

\* children.filter(id => id !== contentId)
FilterOut(s, x) == SelectSeq(s, LAMBDA e : e # x)

RECURSIVE SumLen(_, _)
SumLen(s, i) == IF i > Len(s) THEN 0 ELSE Len(s[i].children) + SumLen(s, i + 1)

Count(s, x) == Cardinality({i \in DOMAIN s : s[i] = x})

-----------------------------------------------------------------------------
(* The store and the visibility filter                                     *)

EmptyMap == <<>>

\* nodeMap[id] = { ...node } : the fields of a /tree entry, no _forceVisible
\* and no friendlyId yet.  Strings that are searched are sequences of
\* characters.
NodeOf(n) ==
    [status |-> n.status, children |-> n.children, name |-> n.name,
     description |-> n.description, force |-> FALSE, friendlyId |-> <<>>]

\* m[k] = v on a plain object: a new key goes to the end of the key order
Put(m, k, v) == [x \in DOMAIN m \cup {k} |-> IF x = k THEN v ELSE m[x]]
PutOrder(o, k) == IF k \in Range(o) THEN o ELSE Append(o, k)

\* an entry that is not deleted: the key stays in the map
DelLeavesKey(m, k) == m

\* delete m[k]
Del(m, k) == [x \in DOMAIN m \ {k} |-> m[x]]
DelOrder(o, k) == FilterOut(o, k)

\* isNodeVisible with a connection filter that fails closed: a node without
\* a stats entry is hidden
IsNodeVisibleFailClosed(nodeId, nm, stats, conn, sf) ==
    IF nodeId \notin DOMAIN nm THEN FALSE
    ELSE IF nm[nodeId].force THEN TRUE
    ELSE IF /\ conn \in {"inbound", "outbound"}
            /\ \/ nodeId \notin DOMAIN stats
               \/ conn = "inbound" /\ stats[nodeId].inboundCount = 0
               \/ conn = "outbound" /\ stats[nodeId].outboundCount = 0
         THEN FALSE
    ELSE IF sf # "all" /\ nm[nodeId].status # sf THEN FALSE
    ELSE TRUE

\* isNodeVisible(nodeId): flowchart.js:238-257
IsNodeVisible(nodeId, nm, stats, conn, sf) ==
    IF nodeId \notin DOMAIN nm THEN FALSE
    ELSE IF nm[nodeId].force THEN TRUE
    ELSE IF /\ nodeId \in DOMAIN stats
            /\ \/ conn = "inbound" /\ stats[nodeId].inboundCount = 0
               \/ conn = "outbound" /\ stats[nodeId].outboundCount = 0
         THEN FALSE
    ELSE IF sf # "all" /\ nm[nodeId].status # sf THEN FALSE
    ELSE TRUE

\* the same test with the _forceVisible shortcut left out: the raw filter
PassesRawFilter(nodeId, nm, stats, conn, sf) ==
    /\ nodeId \in DOMAIN nm
    /\ IsNodeVisible(nodeId, [nm EXCEPT ![nodeId].force = FALSE], stats, conn, sf)

-----------------------------------------------------------------------------
(* loadAndRenderTree's rebuild of the store: flowchart.js:693-700          *)

RECURSIVE IngestNodes(_, _, _)
\* response.forEach(node => { nodeMap[node.contentId] = { ...node }; })
IngestNodes(resp, i, acc) ==
    IF i > Len(resp) THEN acc
    ELSE IngestNodes(resp, i + 1,
            [nm |-> Put(acc.nm, resp[i].contentId, NodeOf(resp[i])),
             order |-> PutOrder(acc.order, resp[i].contentId)])

RECURSIVE IngestChildrenSwapped(_, _, _, _)
\* the two sides of the parentMap assignment exchanged
IngestChildrenSwapped(kids, j, parent, acc) ==
    IF j > Len(kids) THEN acc
    ELSE IngestChildrenSwapped(kids, j + 1, parent,
            IF kids[j] # Null /\ kids[j] \in DOMAIN acc.nm
            THEN [acc EXCEPT !.pm = Put(acc.pm, parent, kids[j])]
            ELSE acc)

RECURSIVE IngestChildren(_, _, _, _)
\* node.children.forEach(childId => { if (childId && nodeMap[childId]) parentMap[childId] = node.contentId; })
IngestChildren(kids, j, parent, acc) ==
    IF j > Len(kids) THEN acc
    ELSE IngestChildren(kids, j + 1, parent,
            IF kids[j] # Null /\ kids[j] \in DOMAIN acc.nm
            THEN [acc EXCEPT !.pm = Put(acc.pm, kids[j], parent)]
            ELSE acc)

RECURSIVE IngestParents(_, _, _)
IngestParents(resp, i, acc) ==
    IF i > Len(resp) THEN acc
    ELSE IngestParents(resp, i + 1,
            IngestChildren(resp[i].children, 1, resp[i].contentId, acc))

RECURSIVE Digits(_)
\* String(n) for n >= 0, as a sequence of characters
Digits(n) ==
    LET digit == <<"0", "1", "2", "3", "4", "5", "6", "7", "8", "9">>[(n % 10) + 1]
    IN  IF n < 10 THEN <<digit>> ELSE Append(Digits(n \div 10), digit)

\* String(counter).padStart(2, '0'): flowchart.js:757
PadStart2(counter) ==
    IF Len(Digits(counter)) < 2 THEN <<"0">> \o Digits(counter) ELSE Digits(counter)

RECURSIVE AssignFriendlyIds(_, _, _, _)
\* assignFriendlyIds(orderArray): flowchart.js:748-758.  The entries of the
\* array are looked up in nodeMap, those not found are left out, and the
\* nodes found are numbered from 1 in the order of the array.
AssignFriendlyIds(orderArray, i, counter, nm) ==
    IF i > Len(orderArray) THEN nm
    ELSE IF orderArray[i].contentId \notin DOMAIN nm
         THEN AssignFriendlyIds(orderArray, i + 1, counter, nm)
    ELSE AssignFriendlyIds(orderArray, i + 1, counter + 1,
            [nm EXCEPT ![orderArray[i].contentId].friendlyId = PadStart2(counter)])

\* both forEach passes, applied to the maps as they are when the response
\* arrives, and the numbering of line 702
IngestTree(resp, nm, order, pm) ==
    LET a == IngestNodes(resp, 1, [nm |-> nm, order |-> order])
        b == IngestParents(resp, 1, [nm |-> a.nm, order |-> a.order, pm |-> pm])
    IN  [b EXCEPT !.nm = AssignFriendlyIds(resp, 1, 1, b.nm)]

-----------------------------------------------------------------------------
(* The ancestor-marking walk of loadAndRenderVisuals: flowchart.js:509-518 *)

RECURSIVE MarkParentsVisible(_, _, _, _)
\* the while loop from currentId on; seen holds the ids currentId has taken.
\* Returning to one of them repeats the loop forever: diverged.
MarkParentsVisible(currentId, nm, pm, seen) ==
    IF currentId \notin DOMAIN pm \/ pm[currentId] = Null
    THEN [nm |-> nm, diverged |-> FALSE]
    ELSE LET parentId == pm[currentId] IN
         IF parentId \notin DOMAIN nm THEN [nm |-> nm, diverged |-> FALSE]
         ELSE IF parentId \in seen THEN [nm |-> nm, diverged |-> TRUE]
         ELSE MarkParentsVisible(parentId,
                 [nm EXCEPT ![parentId].force = TRUE], pm, seen \cup {parentId})

RECURSIVE MarkAllVisible(_, _, _, _, _, _, _)
\* for (const nodeId in nodeMap) { if (isNodeVisible(nodeId)) markParentsVisible(nodeId); }
MarkAllVisible(order, i, nm, pm, stats, conn, sf) ==
    IF i > Len(order) THEN [nm |-> nm, diverged |-> FALSE]
    ELSE IF IsNodeVisible(order[i], nm, stats, conn, sf)
         THEN LET r == MarkParentsVisible(order[i], nm, pm, {order[i]}) IN
              IF r.diverged THEN r
              ELSE MarkAllVisible(order, i + 1, r.nm, pm, stats, conn, sf)
         ELSE MarkAllVisible(order, i + 1, nm, pm, stats, conn, sf)

\* for (const nodeId in nodeMap) delete nodeMap[nodeId]._forceVisible
ClearForce(nm) == [k \in DOMAIN nm |-> [nm[k] EXCEPT !.force = FALSE]]

-----------------------------------------------------------------------------
(* renderNode: flowchart.js:565-597.  The result is the visited set after  *)
(* the call and the cards emitted, in document order, each with the card   *)
(* it is nested in (Null for the outermost) and its level.                 *)

NoOutput(rendered) == [rendered |-> rendered, out |-> <<>>]

\* a visited set handed down by value: a sibling does not see what the
\* children rendered before it have added
LocalVisited(before, after) == before

\* renderedNodes is one Set shared by the whole pass: what a child's call
\* added is seen by the siblings rendered after it
SharedVisited(before, after) == after

RECURSIVE RenderNode(_, _, _, _, _, _, _, _, _)
RECURSIVE RenderChildren(_, _, _, _, _, _, _, _, _, _)

\* renderNode with the wrong id put into the visited set: the card the call
\* came from instead of the card being drawn
RenderNodeMarksParent(nodeId, parent, level, nm, stats, conn, sf, single, rendered) ==
    IF nodeId \notin DOMAIN nm THEN NoOutput(rendered)
    ELSE IF ~nm[nodeId].force /\ ~IsNodeVisible(nodeId, nm, stats, conn, sf)
         THEN NoOutput(rendered)
    ELSE IF nodeId \in rendered THEN NoOutput(rendered)
    ELSE LET r1 == rendered \cup {parent}
             sortedChildren == SortIds(nm[nodeId].children)
             kids == IF Len(sortedChildren) > 0 /\ ~(single /\ level = 0)
                     THEN RenderChildren(sortedChildren, 1, nodeId, level + 1,
                                         nm, stats, conn, sf, single, r1)
                     ELSE NoOutput(r1)
         IN  [rendered |-> kids.rendered,
              out |-> <<[id |-> nodeId, parent |-> parent, level |-> level]>>
                      \o kids.out]

RenderNode(nodeId, parent, level, nm, stats, conn, sf, single, rendered) ==
    IF nodeId \notin DOMAIN nm THEN NoOutput(rendered)
    ELSE IF ~nm[nodeId].force /\ ~IsNodeVisible(nodeId, nm, stats, conn, sf)
         THEN NoOutput(rendered)
    ELSE IF nodeId \in rendered THEN NoOutput(rendered)
    ELSE LET r1 == rendered \cup {nodeId}
             sortedChildren == SortIds(nm[nodeId].children)
             kids == IF Len(sortedChildren) > 0 /\ ~(single /\ level = 0)
                     THEN RenderChildren(sortedChildren, 1, nodeId, level + 1,
                                         nm, stats, conn, sf, single, r1)
                     ELSE NoOutput(r1)
         IN  [rendered |-> kids.rendered,
              out |-> <<[id |-> nodeId, parent |-> parent, level |-> level]>>
                      \o kids.out]

\* sortedChildren.map(childId => renderNode(childId, nodeMapLocal, level + 1)).join('')
RenderChildren(kids, j, parent, level, nm, stats, conn, sf, single, rendered) ==
    IF j > Len(kids) THEN NoOutput(rendered)
    ELSE LET a == RenderNode(kids[j], parent, level, nm, stats, conn, sf,
                             single, rendered)
             b == RenderChildren(kids, j + 1, parent, level, nm, stats, conn,
                                 sf, single, SharedVisited(rendered, a.rendered))
         IN  [rendered |-> b.rendered \cup a.rendered, out |-> a.out \o b.out]

-----------------------------------------------------------------------------
(* fetchAllStats' use of the /stats/all answer: flowchart.js:374-381       *)

\* nodeStats[nodeId] = { inboundCount: ... || 0, outboundCount: ... || 0 }
StatsOf(allStats) ==
    [k \in DOMAIN allStats |->
        [inboundCount |-> allStats[k].total_inbound_count,
         outboundCount |-> allStats[k].total_outbound_count]]

-----------------------------------------------------------------------------
(* The backend, as far as the client sees it                               *)

SrvIds == {srvTree[i].contentId : i \in DOMAIN srvTree}

\* the backend's record of a node it holds
SrvNode(id) == srvTree[CHOOSE i \in DOMAIN srvTree : srvTree[i].contentId = id]

\* the orders GET /tree lists the backend's nodes in (the root first): none,
\* one node, two nodes with the third id dangling, and all three nodes with the
\* root the smallest or the largest id
TreeOrders == {<<>>, <<1>>, <<2, 1>>, <<1, 2, 3>>, <<3, 1, 2>>}

\* the statuses the listed nodes carry: at most one of them is Completed
StatusChoicesFor(o) ==
    {st \in [Range(o) -> Statuses] :
        Cardinality({k \in Range(o) : st[k] = "Completed"}) <= 1}

BareNode(id, st) ==
    [contentId |-> id, status |-> st, children |-> <<>>, name |-> "old",
     description |-> "old"]

\* POST /relation/create on the backend: childId is appended to the parent's list
SrvWithRelation(tree, parentId, childId) ==
    [i \in DOMAIN tree |->
        IF tree[i].contentId = parentId
        THEN [tree[i] EXCEPT !.children = Append(@, childId)]
        ELSE tree[i]]

\* the backend already holds the relation: it answers POST /relation/create
\* with the error 'Relationship exists'
SrvHasRelation(parentId, childId) ==
    \E i \in DOMAIN srvTree :
        srvTree[i].contentId = parentId /\ childId \in Range(srvTree[i].children)

\* DELETE /node/delete/<id>: the node goes, and with it every relation to it
SrvWithoutNode(tree, contentId) ==
    LET rest == SelectSeq(tree, LAMBDA n : n.contentId # contentId)
    IN  [i \in DOMAIN rest |->
            [rest[i] EXCEPT !.children = FilterOut(@, contentId)]]

\* DELETE /relation/delete { parentId, childId }
SrvWithoutRelation(tree, parentId, childId) ==
    [i \in DOMAIN tree |->
        IF tree[i].contentId = parentId
        THEN [tree[i] EXCEPT !.children = FilterOut(@, childId)]
        ELSE tree[i]]

\* the connections /inbound_stats and /outbound_stats list: the static links
\* and the recorded clicks
SrvConnections ==
    srvClicks \cup {pc \in SrvIds \X SrvIds : SrvHasRelation(pc[1], pc[2])}

\* PUT /node/update/<id> with the form's name and description
SrvWithUpdate(tree, contentId) ==
    [i \in DOMAIN tree |->
        IF tree[i].contentId = contentId
        THEN [tree[i] EXCEPT !.name = "new", !.description = "new"]
        ELSE tree[i]]

\* what GET /stats/all may answer: a row for every node the backend holds; the
\* nodes of A have been clicked to, the others clicked from.  A is empty or
\* holds the node listed last.
StatsAnswers ==
    {[k \in SrvIds |->
        [total_inbound_count |-> IF k \in A THEN 1 ELSE 0,
         total_outbound_count |-> IF k \in A THEN 0 ELSE 1]] :
     A \in {{}, {srvTree[i].contentId : i \in {Len(srvTree)} \cap DOMAIN srvTree}}}

-----------------------------------------------------------------------------
(* Handler invocations.  pc names the await the invocation is suspended    *)
(* at; attempts counts the fetches its current fetchWithRetry call made,   *)
(* err is how the last of them failed, resp is the /tree answer the        *)
(* invocation's reload has ingested, now is the Date.now() a cached        *)
(* reload read when it started, marked holds the ids that carried          *)
(* _forceVisible when the invocation's marking loop had run.               *)

IdleTask ==
    [pc |-> "idle", root |-> Null, id |-> Null, child |-> Null, parent |-> Null,
     attempts |-> 0, cont |-> "none", err |-> "none", resp |-> <<>>, now |-> 0, marked |-> {}]

FetchPcs ==
    {"lrt_tree", "lrt_stats", "lrv_stats", "af_stats", "edit_put", "hs_search",
     "hl_relate", "hl_click", "cc_create", "cc_relate", "dn_delete",
     "im_inbound", "im_outbound", "dr_delete"}

Awaiting(t, pcs) == page = "live" /\ tasks[t].pc \in pcs

\* a handler can start: the page is up and slot t is the first one free
Free(t) ==
    /\ Awaiting(t, {"idle"})
    /\ \A u \in Tasks : u < t => tasks[u].pc # "idle"

\* the attempts of one call are counted up to the first number past the
\* MAX_RETRIES + 1 a call is meant to make: "more than that" is one value
Counted(n) == IF n > MAX_RETRIES + 2 THEN MAX_RETRIES + 2 ELSE n

\* the invocation issues a new fetchWithRetry call and suspends at pc
Fetching(task, pc) == [task EXCEPT !.pc = pc, !.attempts = 1, !.err = "none"]

\* The content of #tree-content-wrapper.  A rendered tree carries, beside the
\* cards, what the pass that wrote it ran on: which function ran it, its root,
\* the ids renderNode's visibility test let through (vis) and the ids that
\* passed the filter without the _forceVisible shortcut (raw).
View(kind) ==
    [kind |-> kind, out |-> <<>>, by |-> "none", root |-> Null, vis |-> {},
     raw |-> {}, viewport |-> "none"]

Emitted == {view.out[i].id : i \in DOMAIN view.out}

\* the card of nodeId is on the page, so its buttons can be clicked
CardShown(nodeId) ==
    view.kind = "tree" /\ nodeId \in Emitted /\ nodeId \in DOMAIN nodeMap

ClosedModal == [parent |-> Null, results |-> {}, status |-> "closed"]

ClosedInfo == [node |-> Null, links |-> {}, status |-> "closed"]

\* what runs when an awaited loadAndRenderTree() returns to its caller
AfterReload(cont) ==
    CASE cont = "created" -> {"created"}
      [] cont = "deleted" -> {"deleted"}
      [] OTHER -> {}

\* fetchWithRetry's test on a failed attempt: flowchart.js:118
RetriesRemainOffByOne(count) == count <= MAX_RETRIES

RetriesRemain(count) == count < MAX_RETRIES

-----------------------------------------------------------------------------
(* The synchronous head of loadAndRenderTree: flowchart.js:677-687.  The   *)
(* spinner is shown, the visited set and both maps are emptied, and the    *)
(* /tree fetch is issued.  cont is what the awaiting caller does after.    *)

BeginReload(t, cont) ==
    /\ view' = View("spinner")
    /\ renderedNodes' = {}
    /\ nodeMap' = EmptyMap
    /\ keyOrder' = <<>>
    /\ parentMap' = EmptyMap
    /\ tasks' = [tasks EXCEPT ![t] = Fetching([IdleTask EXCEPT !.cont = cont], "lrt_tree")]

(* The synchronous head of loadAndRenderVisuals(rootOverrideId):           *)
(* flowchart.js:502-527, run on the node table nm and the stats cache the  *)
(* caller leaves, with the selects at conn and sf.                         *)
BeginVisuals(t, rootOverrideId, nm, stats, conn, sf) ==
    LET m == MarkAllVisible(keyOrder, 1, nm, parentMap, stats, conn, sf)
        rootNodeId ==
            IF rootOverrideId # Null THEN rootOverrideId
            ELSE IF stableRootId # Null THEN stableRootId
            ELSE IF keyOrder # <<>> THEN keyOrder[1] ELSE Null
    IN  IF m.diverged
        THEN \* the while loop of markParentsVisible never ends
             /\ page' = "hung"
             /\ view' = View("rendering")
             /\ renderedNodes' = {}
             /\ nodeMap' = m.nm
             /\ tasks' = [tasks EXCEPT ![t] = IdleTask]
             /\ UNCHANGED <<keyOrder, parentMap>>
        ELSE IF rootNodeId = Null \/ rootNodeId \notin DOMAIN nm
        THEN IF stableRootId # Null
             THEN BeginReload(t, "none") /\ UNCHANGED page
             ELSE /\ view' = View("rendering")
                  /\ renderedNodes' = {}
                  /\ nodeMap' = m.nm
                  /\ tasks' = [tasks EXCEPT ![t] = IdleTask]
                  /\ UNCHANGED <<keyOrder, parentMap, page>>
        ELSE /\ view' = View("rendering")
             /\ renderedNodes' = {}
             /\ nodeMap' = m.nm
             /\ tasks' = [tasks EXCEPT ![t] =
                    Fetching([IdleTask EXCEPT
                                 !.root = rootNodeId,
                                 !.marked = {k \in DOMAIN m.nm : m.nm[k].force}],
                             "lrv_stats")]
             /\ UNCHANGED <<keyOrder, parentMap, page>>

\* the tail of applyFilters once the filters need no (more) stats: flowchart.js:359-367
FiltersTail(t, stats, conn, sf) ==
    LET rootId == IF stableRootId # Null THEN stableRootId
                  ELSE IF keyOrder # <<>> THEN keyOrder[1] ELSE Null
    IN  IF rootId = Null
        THEN /\ view' = View("nonodes")
             /\ tasks' = [tasks EXCEPT ![t] = IdleTask]
             /\ UNCHANGED <<nodeMap, keyOrder, parentMap, renderedNodes,
                            singleNodeMode, page, focusVars>>
        ELSE /\ singleNodeMode' = FALSE
             /\ preserveViewport' = TRUE
             /\ BeginVisuals(t, rootId, nodeMap, stats, conn, sf)
             /\ UNCHANGED <<nodeToFocusId, lastViewport, timers, lastFocus>>

\* renderNode(rootNodeId, nodeMap, 0) on the store and filters as they are now
RenderPass(rootNodeId, stats) ==
    RenderNode(rootNodeId, Null, 0, nodeMap, stats, connectionFilter,
               statusFilter, singleNodeMode, renderedNodes)

\* RemoveAt(s, i): the sequence s without its i-th element
RemoveAt(s, i) == SubSeq(s, 1, i - 1) \o SubSeq(s, i + 1, Len(s))

\* which branch of the viewport code a finished render takes:
\* flowchart.js:536-550 and 718-731.  The restore branch scrolls only when
\* localStorage holds a snapshot.
ViewportAction ==
    IF nodeToFocusId # Null THEN "focus"
    ELSE IF preserveViewport
         THEN IF lastViewport THEN "restore" ELSE "nothing_saved"
    ELSE "none"

\* setTimeout(() => focusNode(nodeToFocusId), 150); nodeToFocusId = null;
\* the callback reads nodeToFocusId when it runs (captured is Null).  want
\* and shown record the request the render consumed and whether its card is
\* in the render's output.
HonourViewport(out) ==
    IF nodeToFocusId # Null
    THEN /\ timers' = Append(timers,
                [captured |-> Null, want |-> nodeToFocusId, by |-> "render",
                 shown |-> \E i \in DOMAIN out : out[i].id = nodeToFocusId])
         /\ nodeToFocusId' = Null
    ELSE UNCHANGED <<nodeToFocusId, timers>>

\* vizWrap.innerHTML = treeHtml
TreeView(by, rootNodeId, stats, out) ==
    [kind |-> "tree", out |-> out, by |-> by, root |-> rootNodeId,
     viewport |-> ViewportAction,
     vis |-> {k \in DOMAIN nodeMap :
                IsNodeVisible(k, nodeMap, stats, connectionFilter, statusFilter)},
     raw |-> {k \in DOMAIN nodeMap :
                PassesRawFilter(k, nodeMap, stats, connectionFilter, statusFilter)}]

-----------------------------------------------------------------------------
(* updateParentContainer(parentId): flowchart.js:276-311.  The cards       *)
(* nested in the parent's card are dropped and its children are rendered   *)
(* anew, at level 1, against the visited set as the last pass left it.     *)

RECURSIVE NestedIn(_, _, _)
\* the ids of the cards of out nested, at any depth, in a card of front
NestedIn(out, front, seen) ==
    LET next == {out[i].id : i \in {j \in DOMAIN out : out[j].parent \in front}}
                \ seen
    IN  IF next = {} THEN seen ELSE NestedIn(out, next, seen \cup next)

UpdateParentContainer(parentId, nm) ==
    LET same == [out |-> view.out, rendered |-> renderedNodes]
        shown == view.kind = "tree" /\ parentId \in Emitted
        inside == NestedIn(view.out, {parentId}, {}) \ {parentId}
        kept == SelectSeq(view.out, LAMBDA e : e.id \notin inside)
        at == CHOOSE k \in DOMAIN kept :
                 /\ kept[k].id = parentId
                 /\ \A j \in 1..(k - 1) : kept[j].id # parentId
        r == RenderChildren(nm[parentId].children, 1, parentId, 1, nm,
                            nodeStats, connectionFilter, statusFilter,
                            singleNodeMode, renderedNodes)
    IN  IF parentId = Null THEN same
        ELSE IF parentId \notin DOMAIN nm \/ nm[parentId].children = <<>>
        THEN IF shown THEN [out |-> kept, rendered |-> renderedNodes] ELSE same
        ELSE IF ~shown THEN same
        ELSE [out |-> SubSeq(kept, 1, at) \o r.out
                      \o SubSeq(kept, at + 1, Len(kept)),
              rendered |-> r.rendered]

-----------------------------------------------------------------------------
(* Setting the scene: the backend's tree before the page is opened         *)

SetupRelation(parentId, childId) ==
    /\ page = "setup"
    /\ parentId \in SrvIds
    /\ SumLen(srvTree, 1) < MaxEdges
    /\ srvTree' = SrvWithRelation(srvTree, parentId, childId)
    /\ UNCHANGED <<nodeMap, keyOrder, parentMap, nodeStats, stableRootId,
                   renderedNodes, singleNodeMode, retryCount, connectionFilter,
                   statusFilter, view, messages, redirect, tasks, linkModal, infoModal,
                   gestures, srvClicks, cacheVars, page,
                   focusVars>>

\* DOMContentLoaded: the initial loadAndRenderTree(), flowchart.js:865
PageLoad(t) ==
    /\ page = "setup"
    /\ page' = "live"
    /\ BeginReload(t, "none")
    /\ UNCHANGED <<nodeStats, stableRootId, singleNodeMode, retryCount,
                   connectionFilter, statusFilter, messages, redirect,
                   linkModal, infoModal, gestures, srvTree, srvClicks, cacheVars,
                   focusVars>>

\* the user opens one more form or dialog
Gesture(limit) == gestures < limit /\ gestures' = gestures + 1

-----------------------------------------------------------------------------
(* fetchWithRetry's catch: flowchart.js:117-128                            *)

\* an attempt fails with error e while retries remain: the counter goes up
\* and, after the delay, the same request is sent again
AttemptFails(t, e) ==
    /\ Awaiting(t, FetchPcs)
    /\ RetriesRemain(retryCount)
    /\ retryCount' = retryCount + 1
    /\ tasks' = [tasks EXCEPT ![t].attempts = Counted(@ + 1), ![t].err = e]
    /\ UNCHANGED <<nodeMap, keyOrder, parentMap, nodeStats, stableRootId,
                   renderedNodes, singleNodeMode, connectionFilter,
                   statusFilter, view, messages, redirect, linkModal, infoModal, gestures,
                   srvTree, srvClicks, cacheVars, page,
                   focusVars>>

\* the request or its answer is lost on the network
NetworkFails(t) == AttemptFails(t, "network")

\* an attempt of the call t is suspended at fails with no retries left: the
\* fatal message is shown, the redirect is scheduled, and the error is thrown
\* to the caller
Exhausted(t, pcs) ==
    /\ Awaiting(t, pcs)
    /\ ~RetriesRemain(retryCount)
    /\ redirect' = TRUE
    /\ UNCHANGED retryCount

\* setTimeout(() => { window.location.href = 'index.html'; }, 1000) fires
RedirectFires ==
    /\ page = "live"
    /\ redirect
    /\ page' = "gone"
    /\ UNCHANGED <<nodeMap, keyOrder, parentMap, nodeStats, stableRootId,
                   renderedNodes, singleNodeMode, retryCount, connectionFilter,
                   statusFilter, view, messages, redirect, tasks, linkModal, infoModal,
                   gestures, srvTree, srvClicks, cacheVars,
                   focusVars>>

\* a pending focus callback runs: focusNode(nodeId), flowchart.js:199-228.
\* A callback scheduled by a render evaluates nodeToFocusId now (537, 719);
\* the one of the create-child patch holds its childId (838).  When the card
\* is on the page the view scrolls to it, and the scroll listener of line
\* 785-790 saves the viewport.
FocusFires(i) ==
    LET nodeId == IF timers[i].captured = Null THEN nodeToFocusId
                  ELSE timers[i].captured
        found == nodeId # Null /\ view.kind = "tree" /\ nodeId \in Emitted
    IN  /\ page = "live"
        /\ timers' = RemoveAt(timers, i)
        /\ lastFocus' = nodeId
        /\ lastViewport' = (lastViewport \/ found)
        /\ UNCHANGED <<nodeMap, keyOrder, parentMap, nodeStats, stableRootId,
                       renderedNodes, singleNodeMode, retryCount,
                       connectionFilter, statusFilter, view, messages, redirect,
                       tasks, linkModal, infoModal, gestures, srvTree, srvClicks, cacheVars, page,
                       nodeToFocusId, preserveViewport>>

-----------------------------------------------------------------------------
(* loadAndRenderTree after its awaits                                      *)

\* /tree answered: flowchart.js:687-709 (retryCount = 0 is fetchWithRetry:115)
TreeArrives(t) ==
    /\ Awaiting(t, {"lrt_tree"})
    /\ retryCount' = 0
    /\ IF Len(srvTree) = 0
       THEN /\ view' = View("noroot")
            /\ messages' = messages \cup AfterReload(tasks[t].cont)
            /\ tasks' = [tasks EXCEPT ![t] = IdleTask]
            /\ UNCHANGED <<nodeMap, keyOrder, parentMap, stableRootId>>
       ELSE LET a == IngestTree(srvTree, nodeMap, keyOrder, parentMap) IN
            /\ nodeMap' = a.nm
            /\ keyOrder' = a.order
            /\ parentMap' = a.pm
            /\ stableRootId' = srvTree[1].contentId
            /\ tasks' = [tasks EXCEPT ![t] =
                   Fetching([@ EXCEPT !.root = srvTree[1].contentId,
                                      !.resp = srvTree], "lrt_stats")]
            /\ UNCHANGED <<view, messages>>
    /\ UNCHANGED <<nodeStats, renderedNodes, singleNodeMode, connectionFilter,
                   statusFilter, redirect, linkModal, infoModal, gestures, srvTree,
                   srvClicks, cacheVars, page,
                   focusVars>>

\* /tree failed for good: the catch of loadAndRenderTree, flowchart.js:735-744
TreeFatal(t) ==
    /\ Exhausted(t, {"lrt_tree"})
    /\ view' = View("loaderror")
    /\ messages' = messages \cup {"fatal"} \cup AfterReload(tasks[t].cont)
    /\ tasks' = [tasks EXCEPT ![t] = IdleTask]
    /\ UNCHANGED <<nodeMap, keyOrder, parentMap, nodeStats, stableRootId,
                   renderedNodes, singleNodeMode, connectionFilter,
                   statusFilter, linkModal, infoModal, gestures, srvTree, srvClicks, cacheVars, page,
                   focusVars>>

\* the rest of loadAndRenderTree with the stats cache as fetchAllStats left it:
\* flowchart.js:711-712; shown is what showMessage has displayed by then
ReloadTail(t, stats, shown) ==
    LET r == RenderPass(tasks[t].root, stats) IN
    /\ nodeStats' = stats
    /\ view' = TreeView("loadAndRenderTree", tasks[t].root, stats, r.out)
    /\ renderedNodes' = r.rendered
    /\ messages' = shown \cup AfterReload(tasks[t].cont)
    /\ tasks' = [tasks EXCEPT ![t] = IdleTask]
    /\ HonourViewport(r.out)
    /\ UNCHANGED <<nodeMap, keyOrder, parentMap, stableRootId, singleNodeMode,
                   connectionFilter, statusFilter, linkModal, infoModal, gestures, srvTree,
                   srvClicks, cacheVars, page, preserveViewport, lastViewport, lastFocus>>

\* /stats/all answered inside loadAndRenderTree: flowchart.js:373-385, 709-712
ReloadStatsArrive(t) ==
    /\ Awaiting(t, {"lrt_stats"})
    /\ retryCount' = 0
    /\ UNCHANGED redirect
    /\ \E allStats \in StatsAnswers : ReloadTail(t, StatsOf(allStats), messages)

\* /stats/all failed for good: fetchAllStats' catch empties the cache and the
\* reload goes on, flowchart.js:386-390
ReloadStatsFatal(t) ==
    /\ Exhausted(t, {"lrt_stats"})
    /\ ReloadTail(t, EmptyMap, messages \cup {"fatal"})

-----------------------------------------------------------------------------
(* loadAndRenderVisuals after its await                                    *)

\* flowchart.js:528-529 and 557
VisualsTail(t, stats) ==
    LET r == RenderPass(tasks[t].root, stats) IN
    /\ nodeStats' = stats
    /\ view' = TreeView("loadAndRenderVisuals", tasks[t].root, stats, r.out)
    /\ renderedNodes' = r.rendered
    /\ nodeMap' = ClearForce(nodeMap)
    /\ tasks' = [tasks EXCEPT ![t] = IdleTask]
    /\ HonourViewport(r.out)
    /\ UNCHANGED <<keyOrder, parentMap, stableRootId, singleNodeMode,
                   connectionFilter, statusFilter, linkModal, infoModal, gestures, srvTree,
                   srvClicks, cacheVars, page, preserveViewport, lastViewport, lastFocus>>

VisualsStatsArrive(t) ==
    /\ Awaiting(t, {"lrv_stats"})
    /\ retryCount' = 0
    /\ UNCHANGED <<messages, redirect>>
    /\ \E allStats \in StatsAnswers : VisualsTail(t, StatsOf(allStats))

VisualsStatsFatal(t) ==
    /\ Exhausted(t, {"lrv_stats"})
    /\ messages' = messages \cup {"fatal"}
    /\ VisualsTail(t, EmptyMap)

-----------------------------------------------------------------------------
(* applyFilters with both search boxes empty: flowchart.js:314-368         *)

FilterChoices ==
    {<<"all", "all">>, <<"all", "Completed">>, <<"inbound", "all">>,
     <<"outbound", "New">>}

\* the user sets the two selects and the change handler runs
ApplyFilters(t, conn, sf) ==
    /\ Awaiting(t, {"idle"})
    /\ connectionFilter' = conn
    /\ statusFilter' = sf
    /\ IF conn \in {"inbound", "outbound"}
       THEN /\ tasks' = [tasks EXCEPT ![t] = Fetching(IdleTask, "af_stats")]
            /\ UNCHANGED <<nodeMap, keyOrder, parentMap, renderedNodes,
                           singleNodeMode, view, page, focusVars>>
       ELSE FiltersTail(t, nodeStats, conn, sf)
    /\ UNCHANGED <<nodeStats, stableRootId, retryCount, messages, redirect,
                   linkModal, infoModal, srvTree, srvClicks, cacheVars>>

\* /stats/all answered inside applyFilters: flowchart.js:356-367
FilterStatsArrive(t) ==
    /\ Awaiting(t, {"af_stats"})
    /\ retryCount' = 0
    /\ \E allStats \in StatsAnswers :
          /\ nodeStats' = StatsOf(allStats)
          /\ FiltersTail(t, StatsOf(allStats), connectionFilter, statusFilter)
    /\ UNCHANGED <<stableRootId, connectionFilter, statusFilter, messages,
                   redirect, linkModal, infoModal, gestures, srvTree, srvClicks, cacheVars>>

FilterStatsFatal(t) ==
    /\ Exhausted(t, {"af_stats"})
    /\ messages' = messages \cup {"fatal"}
    /\ nodeStats' = EmptyMap
    /\ FiltersTail(t, EmptyMap, connectionFilter, statusFilter)
    /\ UNCHANGED <<stableRootId, connectionFilter, statusFilter, linkModal, infoModal,
                   gestures, srvTree, srvClicks, cacheVars>>

-----------------------------------------------------------------------------
(* handleEditSubmit: flowchart.js:394-422.  The form carries a new name    *)
(* and description and the status the node has.                            *)

\* the user opens the edit form on a card and submits it
EditSubmit(t, contentId) ==
    /\ Awaiting(t, {"idle"})
    /\ CardShown(contentId)
    /\ tasks' = [tasks EXCEPT ![t] =
           Fetching([IdleTask EXCEPT !.id = contentId], "edit_put")]
    /\ UNCHANGED <<nodeMap, keyOrder, parentMap, nodeStats, stableRootId,
                   renderedNodes, singleNodeMode, retryCount, connectionFilter,
                   statusFilter, view, messages, redirect, linkModal, infoModal, srvTree,
                   srvClicks, cacheVars, page,
                   focusVars>>

\* the edit written as a fresh object put in the node's place, which loses
\* the fields the form does not carry
EditedAsNewObject(nm, contentId) ==
    [nm EXCEPT ![contentId] =
        [@ EXCEPT !.name = "new", !.description = "new", !.children = <<>>]]

\* nodeMap[contentId].name = newName; ... with nodeMap[contentId] defined
EditedLocally(nm, contentId) ==
    [nm EXCEPT ![contentId].name = "new", ![contentId].description = "new"]

\* the PUT answered: lines 409-417; a node gone from nodeMap makes line 411
\* throw a TypeError, which lands in the catch of lines 418-421
EditArrives(t) ==
    LET contentId == tasks[t].id IN
    /\ Awaiting(t, {"edit_put"})
    /\ retryCount' = 0
    /\ srvTree' = SrvWithUpdate(srvTree, contentId)
    /\ IF contentId \in DOMAIN nodeMap
       THEN /\ messages' = messages \cup {"updated"}
            /\ nodeToFocusId' = contentId
            /\ preserveViewport' = FALSE
            /\ BeginVisuals(t, stableRootId, EditedLocally(nodeMap, contentId),
                            nodeStats, connectionFilter, statusFilter)
       ELSE /\ messages' = messages \cup {"updated", "update_failed"}
            /\ BeginReload(t, "none")
            /\ UNCHANGED <<page, nodeToFocusId, preserveViewport>>
    /\ UNCHANGED <<nodeStats, stableRootId, singleNodeMode, connectionFilter,
                   statusFilter, redirect, linkModal, infoModal, gestures, srvClicks, cacheVars,
                   lastViewport, timers, lastFocus>>

\* a catch that reports the failure and leaves the page as it is
EditFatalWithoutReload(t) ==
    /\ Exhausted(t, {"edit_put"})
    /\ messages' = messages \cup {"fatal", "update_failed"}
    /\ tasks' = [tasks EXCEPT ![t] = IdleTask]
    /\ UNCHANGED <<nodeMap, keyOrder, parentMap, view, renderedNodes,
                   nodeStats, stableRootId, singleNodeMode, connectionFilter,
                   statusFilter, linkModal, infoModal, gestures, srvTree, srvClicks, cacheVars, page,
                   focusVars>>

\* the PUT failed for good: lines 418-421
EditFatal(t) ==
    /\ Exhausted(t, {"edit_put"})
    /\ messages' = messages \cup {"fatal", "update_failed"}
    /\ BeginReload(t, "none")
    /\ UNCHANGED <<nodeStats, stableRootId, singleNodeMode, connectionFilter,
                   statusFilter, linkModal, infoModal, gestures, srvTree, srvClicks, cacheVars, page,
                   focusVars>>

-----------------------------------------------------------------------------
(* handleSearch: flowchart.js:1400-1442                                    *)

\* the user opens the link dialog on a card, types a term and searches
Search(t, parentId) ==
    /\ Awaiting(t, {"idle"})
    /\ CardShown(parentId)
    /\ linkModal' = [parent |-> parentId, results |-> {}, status |-> "searching"]
    /\ tasks' = [tasks EXCEPT ![t] =
           Fetching([IdleTask EXCEPT !.id = parentId], "hs_search")]
    /\ UNCHANGED <<nodeMap, keyOrder, parentMap, nodeStats, stableRootId,
                   renderedNodes, singleNodeMode, retryCount, connectionFilter,
                   statusFilter, view, messages, redirect, srvTree, srvClicks, cacheVars,
                   page,
                   infoModal, focusVars>>

\* the search answered with one node the backend holds: lines 1419-1435
SearchArrives(t) ==
    /\ Awaiting(t, {"hs_search"})
    /\ retryCount' = 0
    /\ \E found \in SrvIds :
          /\ nodeMap' = Put(nodeMap, found, NodeOf(SrvNode(found)))
          /\ keyOrder' = PutOrder(keyOrder, found)
          /\ linkModal' = [linkModal EXCEPT !.results = @ \cup {found},
                                            !.status = "listed"]
    /\ tasks' = [tasks EXCEPT ![t] = IdleTask]
    /\ UNCHANGED <<parentMap, nodeStats, stableRootId, renderedNodes,
                   singleNodeMode, connectionFilter, statusFilter, view,
                   messages, redirect, gestures, srvTree, srvClicks, cacheVars, page,
                   infoModal, focusVars>>

\* the search failed for good: lines 1436-1441
SearchFatal(t) ==
    /\ Exhausted(t, {"hs_search"})
    /\ messages' = messages \cup {"fatal"}
    /\ linkModal' = [linkModal EXCEPT !.status = "failed"]
    /\ tasks' = [tasks EXCEPT ![t] = IdleTask]
    /\ UNCHANGED <<nodeMap, keyOrder, parentMap, nodeStats, stableRootId,
                   renderedNodes, singleNodeMode, connectionFilter,
                   statusFilter, view, gestures, srvTree, srvClicks, cacheVars, page,
                   infoModal, focusVars>>

-----------------------------------------------------------------------------
(* handleLinkSelected with one box ticked: flowchart.js:1444-1510          *)

\* the user ticks childId in the result list and confirms; the dialog closes,
\* so nothing can be ticked again before the next search
LinkSelected(t, childId) ==
    /\ Awaiting(t, {"idle"})
    /\ linkModal.status = "listed"
    /\ childId \in linkModal.results
    /\ linkModal.parent \in DOMAIN nodeMap
    /\ linkModal' = ClosedModal
    /\ messages' = messages \cup {"info"}
    /\ tasks' = [tasks EXCEPT ![t] =
           Fetching([IdleTask EXCEPT !.id = linkModal.parent,
                                     !.child = childId], "hl_relate")]
    /\ UNCHANGED <<nodeMap, keyOrder, parentMap, nodeStats, stableRootId,
                   renderedNodes, singleNodeMode, retryCount, connectionFilter,
                   statusFilter, view, redirect, gestures, srvTree, srvClicks, cacheVars,
                   page,
                   infoModal, focusVars>>

\* step 2 of the loop body: the click request is sent, lines 1484-1490
LinkClicks(t, shown) ==
    /\ messages' = shown \cup {"info"}
    /\ tasks' = [tasks EXCEPT ![t] = Fetching(@, "hl_click")]
    /\ UNCHANGED <<nodeMap, keyOrder, parentMap, nodeStats, stableRootId,
                   renderedNodes, singleNodeMode, connectionFilter,
                   statusFilter, view, linkModal, infoModal, gestures, srvClicks, cacheVars, page,
                   focusVars>>

\* the loop body threw: lines 1494-1496 and, with successCount 0, 1507-1509
LinkGivesUp(t) ==
    /\ messages' = messages \cup {"fatal", "link_failed", "no_links"}
    /\ tasks' = [tasks EXCEPT ![t] = IdleTask]
    /\ UNCHANGED <<nodeMap, keyOrder, parentMap, nodeStats, stableRootId,
                   renderedNodes, singleNodeMode, connectionFilter,
                   statusFilter, view, linkModal, infoModal, gestures, srvTree, srvClicks, cacheVars,
                   page,
                   focusVars>>

\* POST /relation/create answered: the backend has added the relation
RelateArrives(t) ==
    /\ Awaiting(t, {"hl_relate"})
    /\ ~SrvHasRelation(tasks[t].id, tasks[t].child)
    /\ retryCount' = 0
    /\ srvTree' = SrvWithRelation(srvTree, tasks[t].id, tasks[t].child)
    /\ UNCHANGED redirect
    /\ LinkClicks(t, messages)

\* the backend holds the relation already and answers 'Relationship exists':
\* to fetchWithRetry a failed attempt like any other (lines 107-113)
RelateRefused(t) ==
    /\ Awaiting(t, {"hl_relate"})
    /\ SrvHasRelation(tasks[t].id, tasks[t].child)
    /\ AttemptFails(t, "exists")

\* the same with no retries left: the error thrown is swallowed by the inner
\* catch of lines 1476-1481, and the click is sent
RelateRefusedFatal(t) ==
    /\ Exhausted(t, {"hl_relate"})
    /\ SrvHasRelation(tasks[t].id, tasks[t].child)
    /\ UNCHANGED srvTree
    /\ LinkClicks(t, messages \cup {"fatal"})

\* the relation request is lost for good: the inner catch throws it on
RelateFatal(t) ==
    /\ Exhausted(t, {"hl_relate"})
    /\ LinkGivesUp(t)

\* handleLinkSelected ending in the redraw from the local store that its
\* comment at line 1502 speaks of, loadAndRenderVisuals(), with no /tree fetch
ClickArrivesVisualsOnly(t) ==
    /\ Awaiting(t, {"hl_click"})
    /\ retryCount' = 0
    /\ srvClicks' = srvClicks \cup {<<tasks[t].id, tasks[t].child>>}
    /\ UNCHANGED cacheVars
    /\ messages' = messages \cup {"linked"}
    /\ nodeToFocusId' = tasks[t].id
    /\ BeginVisuals(t, stableRootId, nodeMap, nodeStats, connectionFilter, statusFilter)
    /\ UNCHANGED <<nodeStats, stableRootId, singleNodeMode, connectionFilter,
                   statusFilter, redirect, linkModal, infoModal, gestures, srvTree,
                   preserveViewport, lastViewport, timers, lastFocus>>

\* POST /link/click answered: lines 1492-1505
ClickArrives(t) ==
    /\ Awaiting(t, {"hl_click"})
    /\ retryCount' = 0
    /\ srvClicks' = srvClicks \cup {<<tasks[t].id, tasks[t].child>>}
    /\ UNCHANGED cacheVars
    /\ messages' = messages \cup {"linked"}
    /\ nodeToFocusId' = tasks[t].id
    /\ BeginReload(t, "none")
    /\ UNCHANGED <<nodeStats, stableRootId, singleNodeMode, connectionFilter,
                   statusFilter, redirect, linkModal, infoModal, gestures, srvTree, page,
                   preserveViewport, lastViewport, timers, lastFocus>>

ClickFatal(t) ==
    /\ Exhausted(t, {"hl_click"})
    /\ LinkGivesUp(t)

-----------------------------------------------------------------------------
(* The submit handler of the create-child form: flowchart.js:795-855       *)

\* the user opens the form on a card, names the child and submits
CreateSubmit(t, parentId) ==
    /\ Awaiting(t, {"idle"})
    /\ CardShown(parentId)
    /\ view' = View("spinner")
    /\ messages' = messages \cup {"info"}
    /\ tasks' = [tasks EXCEPT ![t] =
           Fetching([IdleTask EXCEPT !.id = parentId], "cc_create")]
    /\ UNCHANGED <<nodeMap, keyOrder, parentMap, nodeStats, stableRootId,
                   renderedNodes, singleNodeMode, retryCount, connectionFilter,
                   statusFilter, redirect, linkModal, infoModal, srvTree, srvClicks, cacheVars, page,
                   focusVars>>

\* POST /node/create answered with the id the backend gave the node: 808-814
CreateArrives(t) ==
    /\ Awaiting(t, {"cc_create"})
    /\ retryCount' = 0
    /\ \E childId \in Ids \ SrvIds :
          /\ srvTree' = Append(srvTree, BareNode(childId, "New"))
          /\ tasks' = [tasks EXCEPT ![t] =
                 Fetching([@ EXCEPT !.child = childId], "cc_relate")]
    /\ messages' = messages \cup {"info"}
    /\ UNCHANGED <<nodeMap, keyOrder, parentMap, nodeStats, stableRootId,
                   renderedNodes, singleNodeMode, connectionFilter,
                   statusFilter, view, redirect, linkModal, infoModal, gestures,
                   srvClicks, cacheVars, page,
                   focusVars>>

\* the local patch of lines 819-824
CreatedLocally(nm, parentId, childId) ==
    LET withChild == Put(nm, childId, NodeOf(BareNode(childId, "New")))
    IN  IF parentId \in DOMAIN withChild
        THEN [withChild EXCEPT ![parentId].children = Append(@, childId)]
        ELSE withChild

\* POST /relation/create answered: lines 816-849
CreateRelateArrives(t) ==
    LET parentId == tasks[t].id
        childId == tasks[t].child
        nm == CreatedLocally(nodeMap, parentId, childId)
        patch == UpdateParentContainer(parentId, nm)
    IN
    /\ Awaiting(t, {"cc_relate"})
    /\ retryCount' = 0
    /\ srvTree' = SrvWithRelation(srvTree, parentId, childId)
    /\ IF view.kind = "tree" /\ parentId \in Emitted
       THEN /\ nodeMap' = nm
            /\ keyOrder' = PutOrder(keyOrder, childId)
            /\ parentMap' = Put(parentMap, childId, parentId)
            /\ view' = [view EXCEPT !.out = patch.out]
            /\ renderedNodes' = patch.rendered
            /\ messages' = messages \cup {"created"}
            /\ tasks' = [tasks EXCEPT ![t] = IdleTask]
            /\ timers' = Append(timers,
                   [captured |-> childId, want |-> childId, by |-> "patch",
                    shown |-> \E i \in DOMAIN patch.out : patch.out[i].id = childId])
       ELSE /\ BeginReload(t, "created")
            /\ UNCHANGED <<messages, timers>>
    /\ nodeToFocusId' = childId
    /\ preserveViewport' = FALSE
    /\ UNCHANGED <<nodeStats, stableRootId, singleNodeMode, connectionFilter,
                   statusFilter, redirect, linkModal, infoModal, gestures, srvClicks, cacheVars, page,
                   lastViewport, lastFocus>>

\* either request failed for good: lines 850-854
CreateFatal(t) ==
    /\ Exhausted(t, {"cc_create", "cc_relate"})
    /\ messages' = messages \cup {"fatal", "create_failed"}
    /\ BeginReload(t, "none")
    /\ UNCHANGED <<nodeStats, stableRootId, singleNodeMode, connectionFilter,
                   statusFilter, linkModal, infoModal, gestures, srvTree, srvClicks, cacheVars, page,
                   focusVars>>

-----------------------------------------------------------------------------
(* deleteNode: flowchart.js:426-456                                        *)

\* the user opens the delete dialog on a card and confirms; parentId is read
\* before the request goes out (line 433)
DeleteSubmit(t, contentId) ==
    /\ Awaiting(t, {"idle"})
    /\ CardShown(contentId)
    /\ nodeMap[contentId].children = <<>>    \* only a leaf's card has the button: 625
    /\ tasks' = [tasks EXCEPT ![t] =
           Fetching([IdleTask EXCEPT
                       !.id = contentId,
                       !.parent = IF contentId \in DOMAIN parentMap
                                  THEN parentMap[contentId] ELSE Null],
                    "dn_delete")]
    /\ UNCHANGED <<nodeMap, keyOrder, parentMap, nodeStats, stableRootId,
                   renderedNodes, singleNodeMode, retryCount, connectionFilter,
                   statusFilter, view, messages, redirect, linkModal, infoModal,
                   srvTree, srvClicks, cacheVars, page, focusVars>>

\* what deleteNode asks the next render to focus, line 446
FocusAfterDelete(parentId) == IF parentId # Null THEN parentId ELSE stableRootId

\* the DELETE answered: lines 439-448.  The node is taken out of nodeMap,
\* parentMap and its parent's children (439-443), and the full reload called
\* at 448 empties both maps (684-685) before its /tree request goes out.
DeleteArrives(t) ==
    /\ Awaiting(t, {"dn_delete"})
    /\ retryCount' = 0
    /\ srvTree' = SrvWithoutNode(srvTree, tasks[t].id)
    /\ srvClicks' = {c \in srvClicks : tasks[t].id \notin {c[1], c[2]}}
    /\ UNCHANGED cacheVars
    /\ nodeToFocusId' = FocusAfterDelete(tasks[t].parent)
    /\ preserveViewport' = FALSE
    /\ BeginReload(t, "deleted")
    /\ UNCHANGED <<nodeStats, stableRootId, singleNodeMode, connectionFilter,
                   statusFilter, messages, redirect, linkModal, infoModal,
                   gestures, page, lastViewport, timers, lastFocus>>

\* the DELETE failed for good: lines 451-455, ending in location.reload()
DeleteFatal(t) ==
    /\ Exhausted(t, {"dn_delete"})
    /\ messages' = messages \cup {"fatal", "delete_failed"}
    /\ page' = "reloading"
    /\ tasks' = [tasks EXCEPT ![t] = IdleTask]
    /\ UNCHANGED <<nodeMap, keyOrder, parentMap, nodeStats, stableRootId,
                   renderedNodes, singleNodeMode, connectionFilter,
                   statusFilter, view, linkModal, infoModal, gestures, srvTree,
                   srvClicks, cacheVars, focusVars>>

\* the reloaded document runs the script from its first line (25-36) and
\* its DOMContentLoaded handler starts the initial load (865); the handlers
\* and timers of the old document are gone with it
Reloaded ==
    /\ page = "reloading"
    /\ page' = "live"
    /\ nodeStats' = EmptyMap
    /\ stableRootId' = Null
    /\ singleNodeMode' = FALSE
    /\ retryCount' = 0
    /\ connectionFilter' = "all"
    /\ statusFilter' = "all"
    /\ redirect' = FALSE
    /\ linkModal' = ClosedModal
    /\ infoModal' = ClosedInfo
    /\ nodeToFocusId' = Null
    /\ preserveViewport' = TRUE
    /\ timers' = <<>>
    /\ lastFocus' = Null
    /\ view' = View("spinner")
    /\ renderedNodes' = {}
    /\ nodeMap' = EmptyMap
    /\ keyOrder' = <<>>
    /\ parentMap' = EmptyMap
    /\ tasks' = [u \in Tasks |->
                   IF u = 1 THEN Fetching(IdleTask, "lrt_tree") ELSE IdleTask]
    /\ UNCHANGED <<messages, gestures, srvTree, srvClicks, cacheVars, lastViewport>>

-----------------------------------------------------------------------------
(* openInfoModal and deleteRelationFromModal: flowchart.js:1235-1349       *)

\* the user opens the info dialog of a card: lines 1265-1288
OpenInfoModal(t, nodeId) ==
    /\ Awaiting(t, {"idle"})
    /\ CardShown(nodeId)
    /\ infoModal' = [node |-> nodeId, links |-> {}, status |-> "loading"]
    /\ tasks' = [tasks EXCEPT ![t] =
           Fetching([IdleTask EXCEPT !.id = nodeId], "im_inbound")]
    /\ UNCHANGED <<nodeMap, keyOrder, parentMap, nodeStats, stableRootId,
                   renderedNodes, singleNodeMode, retryCount, connectionFilter,
                   statusFilter, view, messages, redirect, linkModal, srvTree,
                   srvClicks, cacheVars, page, focusVars>>

\* /inbound_stats answered: a delete button for every source in nodeMap,
\* lines 1289-1312
InboundArrives(t) ==
    /\ Awaiting(t, {"im_inbound"})
    /\ retryCount' = 0
    /\ infoModal' = [infoModal EXCEPT !.links =
           {c \in SrvConnections : c[2] = tasks[t].id /\ c[1] \in DOMAIN nodeMap}]
    /\ tasks' = [tasks EXCEPT ![t] = Fetching(@, "im_outbound")]
    /\ UNCHANGED <<nodeMap, keyOrder, parentMap, nodeStats, stableRootId,
                   renderedNodes, singleNodeMode, connectionFilter,
                   statusFilter, view, messages, redirect, linkModal, gestures,
                   srvTree, srvClicks, cacheVars, page, focusVars>>

\* /outbound_stats answered: a delete button for every target in nodeMap,
\* lines 1314-1339
OutboundArrives(t) ==
    /\ Awaiting(t, {"im_outbound"})
    /\ retryCount' = 0
    /\ infoModal' = [infoModal EXCEPT
           !.links = @ \cup {c \in SrvConnections :
                               c[1] = tasks[t].id /\ c[2] \in DOMAIN nodeMap},
           !.status = "listed"]
    /\ tasks' = [tasks EXCEPT ![t] = IdleTask]
    /\ UNCHANGED <<nodeMap, keyOrder, parentMap, nodeStats, stableRootId,
                   renderedNodes, singleNodeMode, connectionFilter,
                   statusFilter, view, messages, redirect, linkModal, gestures,
                   srvTree, srvClicks, cacheVars, page, focusVars>>

\* either request failed for good: the catch of lines 1341-1347
InfoFatal(t) ==
    /\ Exhausted(t, {"im_inbound", "im_outbound"})
    /\ messages' = messages \cup {"fatal"}
    /\ infoModal' = [infoModal EXCEPT !.links = {}, !.status = "failed"]
    /\ tasks' = [tasks EXCEPT ![t] = IdleTask]
    /\ UNCHANGED <<nodeMap, keyOrder, parentMap, nodeStats, stableRootId,
                   renderedNodes, singleNodeMode, connectionFilter,
                   statusFilter, view, linkModal, gestures, srvTree, srvClicks, cacheVars,
                   page, focusVars>>

\* the user presses the delete button of a listed link and confirms:
\* lines 1235-1250
DeleteRelation(t, parentId, childId) ==
    /\ Awaiting(t, {"idle"})
    /\ infoModal.status = "listed"
    /\ <<parentId, childId>> \in infoModal.links
    /\ infoModal' = ClosedInfo
    /\ messages' = messages \cup {"unlinking"}
    /\ tasks' = [tasks EXCEPT ![t] =
           Fetching([IdleTask EXCEPT !.id = parentId, !.child = childId],
                    "dr_delete")]
    /\ UNCHANGED <<nodeMap, keyOrder, parentMap, nodeStats, stableRootId,
                   renderedNodes, singleNodeMode, retryCount, connectionFilter,
                   statusFilter, view, redirect, linkModal, gestures, srvTree,
                   srvClicks, cacheVars, page, focusVars>>

\* /relation/delete answered: lines 1252-1257
DeleteRelationArrives(t) ==
    /\ Awaiting(t, {"dr_delete"})
    /\ retryCount' = 0
    /\ srvTree' = SrvWithoutRelation(srvTree, tasks[t].id, tasks[t].child)
    /\ srvClicks' = srvClicks \ {<<tasks[t].id, tasks[t].child>>}
    /\ UNCHANGED cacheVars
    /\ messages' = messages \cup {"unlinked"}
    /\ nodeToFocusId' = tasks[t].id
    /\ BeginReload(t, "none")
    /\ UNCHANGED <<nodeStats, stableRootId, singleNodeMode, connectionFilter,
                   statusFilter, redirect, linkModal, infoModal, gestures, page,
                   preserveViewport, lastViewport, timers, lastFocus>>

\* /relation/delete failed for good: lines 1258-1261
DeleteRelationFatal(t) ==
    /\ Exhausted(t, {"dr_delete"})
    /\ messages' = messages \cup {"fatal", "unlink_failed"}
    /\ BeginReload(t, "none")
    /\ UNCHANGED <<nodeStats, stableRootId, singleNodeMode, connectionFilter,
                   statusFilter, linkModal, infoModal, gestures, srvTree,
                   srvClicks, cacheVars, page, focusVars>>

-----------------------------------------------------------------------------
(* The page before the script has run: flowchart.js:25-36                  *)

ClientInit ==
    /\ nodeMap = EmptyMap
    /\ keyOrder = <<>>
    /\ parentMap = EmptyMap
    /\ nodeStats = EmptyMap
    /\ stableRootId = Null
    /\ renderedNodes = {}
    /\ singleNodeMode = FALSE
    /\ retryCount = 0
    /\ connectionFilter = "all"
    /\ statusFilter = "all"
    /\ view = View("initial")
    /\ messages = {}
    /\ redirect = FALSE
    /\ tasks = [t \in Tasks |-> IdleTask]
    /\ linkModal = ClosedModal
    /\ infoModal = ClosedInfo
    /\ gestures = 0
    /\ srvClicks = {}
    /\ treeCache = [data |-> <<>>, timestamp |-> 0]
    /\ clock = 0
    /\ page = "setup"
    /\ nodeToFocusId = Null
    /\ preserveViewport = TRUE
    /\ timers = <<>>
    /\ lastFocus = Null

\* the backend holds some nodes, no relations yet
InitRender ==
    /\ ClientInit
    /\ lastViewport = FALSE
    /\ \E o \in TreeOrders : \E st \in StatusChoicesFor(o) :
          srvTree = [i \in DOMAIN o |-> BareNode(o[i], st[o[i]])]

(* One handler at a time, every request answered: the renderer and the     *)
(* filters on every backend tree of up to MaxEdges relations.              *)
NextRender ==
    \/ \E p \in Ids, c \in Ids : SetupRelation(p, c)
    \/ PageLoad(1)
    \/ TreeArrives(1)
    \/ ReloadStatsArrive(1)
    \/ \E f \in FilterChoices : ApplyFilters(1, f[1], f[2]) /\ UNCHANGED gestures
    \/ FilterStatsArrive(1)
    \/ VisualsStatsArrive(1)

SpecRender == InitRender /\ [][NextRender]_vars

\* the backend holds a root with one child; a third id is free for a new node
InitLinked ==
    /\ ClientInit
    /\ lastViewport \in BOOLEAN
    /\ srvTree = SrvWithRelation(<<BareNode(1, "New"), BareNode(2, "New")>>, 1, 2)

(* Handlers overlapping at their awaits.  Every request is answered; the   *)
(* only error is the backend's refusal of a relation it already holds.     *)
Next ==
    \/ PageLoad(1)
    \/ \E t \in Tasks : TreeArrives(t)
    \/ \E t \in Tasks : ReloadStatsArrive(t)
    \/ \E t \in Tasks : VisualsStatsArrive(t)
    \/ \E t \in Tasks, f \in FilterChoices :
          Free(t) /\ Gesture(MaxGestures) /\ ApplyFilters(t, f[1], f[2])
    \/ \E t \in Tasks : FilterStatsArrive(t)
    \/ \E t \in Tasks, id \in Ids :
          Free(t) /\ Gesture(MaxGestures) /\ EditSubmit(t, id)
    \/ \E t \in Tasks : EditArrives(t)
    \/ \E t \in Tasks, id \in Ids :
          Free(t) /\ Gesture(MaxGestures) /\ Search(t, id)
    \/ \E t \in Tasks : SearchArrives(t)
    \/ \E t \in Tasks, id \in Ids :
          Free(t) /\ LinkSelected(t, id)
    \/ \E t \in Tasks : RelateArrives(t)
    \/ \E t \in Tasks : RelateRefused(t)
    \/ \E t \in Tasks : RelateRefusedFatal(t)
    \/ \E t \in Tasks : ClickArrives(t)
    \/ \E t \in Tasks, id \in Ids :
          Free(t) /\ Gesture(MaxGestures) /\ CreateSubmit(t, id)
    \/ \E t \in Tasks : CreateArrives(t)
    \/ \E t \in Tasks : CreateRelateArrives(t)
    \/ \E t \in Tasks, id \in Ids :
          Free(t) /\ Gesture(MaxGestures) /\ DeleteSubmit(t, id)
    \/ \E t \in Tasks : DeleteArrives(t)
    \/ \E t \in Tasks, id \in Ids :
          Free(t) /\ Gesture(MaxGestures) /\ OpenInfoModal(t, id)
    \/ \E t \in Tasks : InboundArrives(t)
    \/ \E t \in Tasks : OutboundArrives(t)
    \/ \E t \in Tasks, p \in Ids, c \in Ids :
          Free(t) /\ DeleteRelation(t, p, c)
    \/ \E t \in Tasks : DeleteRelationArrives(t)
    \/ \E i \in DOMAIN timers : FocusFires(i)
    \/ RedirectFires

Spec == InitLinked /\ [][Next]_vars

(* The same page on a network that may drop any request.                   *)
NextFaulty ==
    \/ PageLoad(1)
    \/ \E t \in Tasks : TreeArrives(t)
    \/ \E t \in Tasks : ReloadStatsArrive(t)
    \/ \E t \in Tasks : VisualsStatsArrive(t)
    \/ \E t \in Tasks, f \in FilterChoices :
          Free(t) /\ Gesture(MaxFaultyGestures) /\ ApplyFilters(t, f[1], f[2])
    \/ \E t \in Tasks : FilterStatsArrive(t)
    \/ \E t \in Tasks, id \in Ids :
          Free(t) /\ Gesture(MaxFaultyGestures) /\ EditSubmit(t, id)
    \/ \E t \in Tasks : EditArrives(t)
    \/ \E t \in Tasks : NetworkFails(t)
    \/ \E t \in Tasks : TreeFatal(t)
    \/ \E t \in Tasks : ReloadStatsFatal(t)
    \/ \E t \in Tasks : VisualsStatsFatal(t)
    \/ \E t \in Tasks : FilterStatsFatal(t)
    \/ \E t \in Tasks : EditFatal(t)
    \/ \E t \in Tasks, id \in Ids :
          Free(t) /\ Gesture(MaxFaultyGestures) /\ Search(t, id)
    \/ \E t \in Tasks : SearchArrives(t)
    \/ \E t \in Tasks : SearchFatal(t)
    \/ \E t \in Tasks, id \in Ids :
          Free(t) /\ LinkSelected(t, id)
    \/ \E t \in Tasks : RelateArrives(t)
    \/ \E t \in Tasks : RelateRefused(t)
    \/ \E t \in Tasks : RelateRefusedFatal(t)
    \/ \E t \in Tasks : RelateFatal(t)
    \/ \E t \in Tasks : ClickArrives(t)
    \/ \E t \in Tasks : ClickFatal(t)
    \/ \E t \in Tasks, id \in Ids :
          Free(t) /\ Gesture(MaxFaultyGestures) /\ CreateSubmit(t, id)
    \/ \E t \in Tasks : CreateArrives(t)
    \/ \E t \in Tasks : CreateRelateArrives(t)
    \/ \E t \in Tasks : CreateFatal(t)
    \/ \E t \in Tasks, id \in Ids :
          Free(t) /\ Gesture(MaxFaultyGestures) /\ DeleteSubmit(t, id)
    \/ \E t \in Tasks : DeleteArrives(t)
    \/ \E t \in Tasks, id \in Ids :
          Free(t) /\ Gesture(MaxFaultyGestures) /\ OpenInfoModal(t, id)
    \/ \E t \in Tasks : InboundArrives(t)
    \/ \E t \in Tasks : OutboundArrives(t)
    \/ \E t \in Tasks, p \in Ids, c \in Ids :
          Free(t) /\ DeleteRelation(t, p, c)
    \/ \E t \in Tasks : DeleteRelationArrives(t)
    \/ \E t \in Tasks : DeleteFatal(t)
    \/ Reloaded
    \/ \E t \in Tasks : InfoFatal(t)
    \/ \E t \in Tasks : DeleteRelationFatal(t)
    \/ \E i \in DOMAIN timers : FocusFires(i)
    \/ RedirectFires

SpecRetry == InitLinked /\ [][NextFaulty]_vars

-----------------------------------------------------------------------------
(* Reading a rendered tree                                                 *)

\* child is drawn as a card nested directly in parent's card
DrawnUnder(parent, child) ==
    \E i \in DOMAIN view.out : view.out[i].id = child /\ view.out[i].parent = parent

ListsChild(parent, child) ==
    parent \in DOMAIN nodeMap /\ child \in Range(nodeMap[parent].children)

\* a render pass from the root has just written the view and nothing ran since:
\* the store is the one the pass rendered
PassDone ==
    /\ page = "live"
    /\ view.kind = "tree"
    /\ \A t \in Tasks : tasks[t].pc = "idle"

RECURSIVE ReachFrom(_, _)
\* the ids of the store reachable from the ids of frontier over children lists
ReachFrom(frontier, seen) ==
    LET next == {c \in DOMAIN nodeMap :
                    \E p \in frontier : c \in Range(nodeMap[p].children)} \ seen
    IN  IF next = {} THEN seen ELSE ReachFrom(next, seen \cup next)

Descendants(rootId) ==
    IF rootId \in DOMAIN nodeMap THEN ReachFrom({rootId}, {rootId}) ELSE {}

RECURSIVE ParentChain(_, _, _)
\* the ids parentMap leads to from id, up to and including rootId; id itself
\* is left out, and the walk stops where it would turn in a circle
ParentChain(id, rootId, seen) ==
    IF id = rootId \/ id \notin DOMAIN parentMap \/ parentMap[id] \in seen THEN {}
    ELSE {parentMap[id]}
         \cup ParentChain(parentMap[id], rootId, seen \cup {parentMap[id]})

\* D and its ancestors up to the root, as far as they lie below the root
WithAncestors(D, rootId) ==
    {D} \cup (ParentChain(D, rootId, {D}) \cap Descendants(rootId))

-----------------------------------------------------------------------------
(* C1 as stated: a visible node listed by two rendered nodes P1, P2 is     *)
(* drawn under exactly one of the two after a pass from the root.          *)
C1_ExactlyOneOfTwoParents ==
    PassDone /\ ~singleNodeMode =>
        \A N \in view.vis, P1 \in Emitted, P2 \in Emitted :
            (P1 # P2 /\ ListsChild(P1, N) /\ ListsChild(P2, N)) =>
                (DrawnUnder(P1, N) /\ ~DrawnUnder(P2, N))
                \/ (DrawnUnder(P2, N) /\ ~DrawnUnder(P1, N))

(* C1 amended: such a node is never drawn under both, and it is drawn      *)
(* under exactly one of the two when it is not the root the pass started   *)
(* from and no third rendered node lists it as a child.                    *)
C1_DrawnOnceAmongParents ==
    PassDone /\ ~singleNodeMode =>
        \A N \in view.vis, P1 \in Emitted, P2 \in Emitted :
            (P1 # P2 /\ ListsChild(P1, N) /\ ListsChild(P2, N)) =>
                /\ ~(DrawnUnder(P1, N) /\ DrawnUnder(P2, N))
                /\ (/\ N # view.root
                    /\ \A P \in Emitted : ListsChild(P, N) => P \in {P1, P2})
                   => (DrawnUnder(P1, N) \/ DrawnUnder(P2, N))

\* a pass drew a cross-linked, visible, non-root node whose only rendered
\* parents are two distinct nodes
C1_Witness ==
    /\ PassDone /\ ~singleNodeMode
    /\ \E N \in view.vis, P1 \in Emitted, P2 \in Emitted :
          /\ P1 # P2 /\ ListsChild(P1, N) /\ ListsChild(P2, N)
          /\ N # view.root /\ N \notin {P1, P2}
          /\ \A P \in Emitted : ListsChild(P, N) => P \in {P1, P2}
          /\ DrawnUnder(P1, N)

-----------------------------------------------------------------------------
(* C2: no node id is emitted more than once in the output of a render pass *)
C2_NoIdEmittedTwice ==
    view.kind = "tree" =>
        \A i \in DOMAIN view.out, j \in DOMAIN view.out :
            view.out[i].id = view.out[j].id => i = j

\* a pass ran on a store in which the renderer meets an emitted node again:
\* through a cross-link, a duplicate entry, a self-loop or a cycle
C2_Witness ==
    /\ PassDone
    /\ \E N \in Emitted :
          \/ \E P1 \in Emitted, P2 \in Emitted :
                P1 # P2 /\ ListsChild(P1, N) /\ ListsChild(P2, N)
          \/ \E P \in Emitted : Count(nodeMap[P].children, N) > 1
          \/ ListsChild(N, N)

-----------------------------------------------------------------------------
(* C3 as stated: after a pass from the root, every node below the root     *)
(* that passes the raw filter is in the rendered tree, and so is every     *)
(* node on its parentMap chain up to the root.                             *)
C3_AncestorsPreserved ==
    PassDone /\ ~singleNodeMode /\ view.root = stableRootId =>
        \A D \in view.raw \cap Descendants(view.root) :
            WithAncestors(D, view.root) \subseteq Emitted

-----------------------------------------------------------------------------
(* Reading a step                                                          *)

RespIds(resp) == {resp[i].contentId : i \in DOMAIN resp}

\* the /tree answer resp lists childId among the children of parentId
RespLists(resp, parentId, childId) ==
    \E i \in DOMAIN resp :
        resp[i].contentId = parentId /\ childId \in Range(resp[i].children)

\* the step in which the reload run by t writes its tree to the view
ReloadCompletes(t) ==
    tasks[t].pc = "lrt_stats" /\ tasks'[t].pc = "idle" /\ view'.kind = "tree"

\* t is between the start of a render pass and the write of its output
InPass(t) == tasks[t].pc \in {"lrt_tree", "lrt_stats", "lrv_stats"}

\* the step is taken by the invocation in slot t
StepOf(t) == tasks'[t] # tasks[t]

\* the step in which the PUT of handleEditSubmit comes back successful
EditSucceeds(t) ==
    tasks[t].pc = "edit_put" /\ StepOf(t) /\ retryCount' = 0

\* the step in which the backend refuses the relation handleLinkSelected asks for
Refused(t) ==
    /\ tasks[t].pc = "hl_relate"
    /\ SrvHasRelation(tasks[t].id, tasks[t].child)
    /\ StepOf(t)
    /\ retryCount' # 0

\* the step in which an attempt of the call t is suspended at fails: a
\* successful attempt leaves retryCount at 0, a failed one never does
AttemptFailed(t) == tasks[t].pc \in FetchPcs /\ StepOf(t) /\ retryCount' # 0

\* the catch of the function that awaited the call has run in this step
CatchRan(t) ==
    CASE tasks[t].pc = "lrt_tree" -> view'.kind = "loaderror"
      [] tasks[t].pc \in {"lrt_stats", "lrv_stats", "af_stats"} ->
            nodeStats' = EmptyMap
      [] tasks[t].pc = "edit_put" -> "update_failed" \in messages'
      [] tasks[t].pc = "hs_search" -> linkModal'.status = "failed"
      [] tasks[t].pc = "hl_relate" ->
            tasks'[t].pc = "hl_click" \/ "link_failed" \in messages'
      [] tasks[t].pc = "hl_click" -> "link_failed" \in messages'
      [] tasks[t].pc = "dn_delete" -> "delete_failed" \in messages'
      [] tasks[t].pc \in {"im_inbound", "im_outbound"} ->
            infoModal'.status = "failed"
      [] tasks[t].pc = "dr_delete" -> "unlink_failed" \in messages'
      [] OTHER -> "create_failed" \in messages'

-----------------------------------------------------------------------------
(* C4 as stated: when a full reload completes, the keys of nodeMap are     *)
(* exactly the ids of that reload's /tree answer and every parentMap entry *)
(* is a parent-child pair that answer lists, whatever ran in between.      *)
C4_ReloadReplacesStore ==
    [][\A t \in Tasks : ReloadCompletes(t) =>
          /\ DOMAIN nodeMap' = RespIds(tasks[t].resp)
          /\ \A c \in DOMAIN parentMap' :
                RespLists(tasks[t].resp, parentMap'[c], c)]_vars

-----------------------------------------------------------------------------
(* C5 as stated: while a render pass is between its start and the write of *)
(* its output, no step of another handler changes nodeMap, parentMap,      *)
(* nodeStats or renderedNodes.                                             *)
C5_PassRunsUninterrupted ==
    [][\A t \in Tasks : (InPass(t) /\ ~StepOf(t)) =>
          UNCHANGED <<nodeMap, parentMap, nodeStats, renderedNodes>>]_vars

-----------------------------------------------------------------------------
(* C6 as stated: whenever the stats cache is written, every key written is *)
(* a key of nodeMap at that moment.                                        *)
C6_StatsOnlyForStoredNodes ==
    [][nodeStats' # nodeStats => DOMAIN nodeStats' \subseteq DOMAIN nodeMap]_vars

-----------------------------------------------------------------------------
(* C7 as stated: when the update of handleEditSubmit succeeds for an id    *)
(* that is not in nodeMap, nodeMap stays as it is and no 'Failed to update *)
(* node' message is shown.                                                 *)
C7_EditOfAbsentNodeIsNoOp ==
    [][\A t \in Tasks :
          (EditSucceeds(t) /\ tasks[t].id \notin DOMAIN nodeMap) =>
              /\ nodeMap' = nodeMap
              /\ "update_failed" \notin messages' \ messages]_vars

-----------------------------------------------------------------------------
(* C8 as stated: when the backend answers the relation request of          *)
(* handleLinkSelected with 'Relationship exists', no fatal message is      *)
(* shown and no redirect is scheduled.                                     *)
C8_ExistingRelationIsNotFatal ==
    [][\A t \in Tasks : Refused(t) =>
          /\ "fatal" \notin messages' \ messages
          /\ redirect' => redirect]_vars

-----------------------------------------------------------------------------
(* C9 as stated: no fetchWithRetry call makes more than MAX_RETRIES + 1    *)
(* network attempts, whatever other calls are in flight.                   *)
C9_AtMostSixAttempts ==
    \A t \in Tasks : tasks[t].attempts <= MAX_RETRIES + 1

-----------------------------------------------------------------------------
(* C10: a failed attempt made while the retry counter is below MAX_RETRIES *)
(* shows no message, schedules nothing and leaves the call in flight with  *)
(* one more attempt; a failed attempt made with the counter at MAX_RETRIES *)
(* shows the fatal message, schedules the redirect, and the catch of the   *)
(* function awaiting the call runs.                                        *)
C10_SilentUntilExhausted ==
    [][\A t \in Tasks : AttemptFailed(t) =>
          IF retryCount < MAX_RETRIES
          THEN /\ messages' = messages
               /\ redirect' = redirect
               /\ tasks'[t].pc = tasks[t].pc
               /\ tasks'[t].attempts = Counted(tasks[t].attempts + 1)
          ELSE /\ "fatal" \in messages'
               /\ redirect'
               /\ CatchRan(t)]_vars

\* the PUT of an edit has failed MAX_RETRIES + 1 times in a row with nothing
\* else in flight: the fatal message is up, the redirect is scheduled and
\* the handler's catch has reported the failure and started its reload
C10_Witness ==
    /\ page = "live"
    /\ redirect
    /\ {"fatal", "update_failed"} \subseteq messages
    /\ "updated" \notin messages
    /\ retryCount = MAX_RETRIES
    /\ \E t \in Tasks : tasks[t].pc = "lrt_tree" /\ tasks[t].attempts = 1

-----------------------------------------------------------------------------
\* the step in which the render run by t writes its tree to the view
RenderCompletes(t) ==
    /\ tasks[t].pc \in {"lrt_stats", "lrv_stats"}
    /\ tasks'[t].pc = "idle"
    /\ view'.kind = "tree"

(* C11 as stated: every render that completes either schedules the focus   *)
(* of the pending nodeToFocusId or takes the branch that restores the      *)
(* saved viewport (a render that finds no snapshot to restore counts as    *)
(* restoring), and nodeToFocusId is null after a render that used it.      *)
C11_OneViewportActionPerRender ==
    [][\A t \in Tasks : RenderCompletes(t) =>
          /\ view'.viewport \in {"focus", "restore", "nothing_saved"}
          /\ view'.viewport = "focus" => nodeToFocusId' = Null]_vars

\* the step in which the i-th pending timer callback runs
TimerRuns(i) ==
    /\ i \in DOMAIN timers
    /\ timers' = RemoveAt(timers, i)
    /\ page = "live"

(* C12 as stated: when a render completed with nodeToFocusId = X pending   *)
(* and X in its output, the focus callback it scheduled runs focusNode     *)
(* with the argument X.                                                    *)
C12_FocusCallbackReceivesPending ==
    [][\A i \in DOMAIN timers :
          (TimerRuns(i) /\ timers[i].by = "render" /\ timers[i].shown)
              => lastFocus' = timers[i].want]_vars

-----------------------------------------------------------------------------
(* The client of src/unnamed/part_001 patches the page in place after a    *)
(* delete or a create instead of reloading.  Its loadAndRenderTree up to   *)
(* the stats request (part_001:1228-1277), its fetchWithRetry, its         *)
(* isNodeVisible (287-314, no _forceVisible) and the create-child form up  *)
(* to the /relation/create request (1435-1482) are the code modelled       *)
(* above; what follows is where it differs.  It has no viewport restore    *)
(* and calls focusNode directly.                                           *)

RECURSIVE RenderNodeLocal(_, _, _, _, _, _, _, _, _)
RECURSIVE RenderChildrenLocal(_, _, _, _, _, _, _, _, _, _)

\* renderNode: part_001:1091-1124.  node.children is sorted where it lies
\* (1113), so the result carries the node table too.
RenderNodeLocal(nodeId, parent, level, nm, stats, conn, sf, single, rendered) ==
    LET nothing == [rendered |-> rendered, out |-> <<>>, nm |-> nm] IN
    IF nodeId \notin DOMAIN nm THEN nothing
    ELSE IF ~PassesRawFilter(nodeId, nm, stats, conn, sf) THEN nothing
    ELSE IF nodeId \in rendered THEN nothing
    ELSE LET r1 == rendered \cup {nodeId}
             sortedChildren == SortIds(nm[nodeId].children)
             nm1 == [nm EXCEPT ![nodeId].children = sortedChildren]
             kids == IF Len(sortedChildren) > 0 /\ ~(single /\ level = 0)
                     THEN RenderChildrenLocal(sortedChildren, 1, nodeId, level + 1,
                                              nm1, stats, conn, sf, single, r1)
                     ELSE [rendered |-> r1, out |-> <<>>, nm |-> nm1]
         IN  [rendered |-> kids.rendered,
              out |-> <<[id |-> nodeId, parent |-> parent, level |-> level]>>
                      \o kids.out,
              nm |-> kids.nm]

\* the children of one card, rendered one after the other on the shared
\* visited set and node table: part_001:1121-1125 and 370-375
RenderChildrenLocal(kids, j, parent, level, nm, stats, conn, sf, single, rendered) ==
    IF j > Len(kids) THEN [rendered |-> rendered, out |-> <<>>, nm |-> nm]
    ELSE LET a == RenderNodeLocal(kids[j], parent, level, nm, stats, conn, sf,
                                  single, rendered)
             b == RenderChildrenLocal(kids, j + 1, parent, level, a.nm, stats,
                                      conn, sf, single, a.rendered)
         IN  [rendered |-> b.rendered, out |-> a.out \o b.out, nm |-> b.nm]

\* if (nodeToFocusId) { focusNode(nodeToFocusId); nodeToFocusId = null; }
\* part_001:1286-1289 and 1354-1357
FocusNow ==
    /\ lastFocus' = IF nodeToFocusId # Null THEN nodeToFocusId ELSE lastFocus
    /\ nodeToFocusId' = Null

\* vizWrapper.innerHTML = treeHtml: part_001:1280-1281 and 1346-1347
LocalView(by, rootNodeId, out) ==
    [kind |-> "tree", out |-> out, by |-> by, root |-> rootNodeId, vis |-> {},
     raw |-> {}, viewport |-> IF nodeToFocusId # Null THEN "focus" ELSE "none"]

\* /stats/all answered inside loadAndRenderTree: part_001:1277-1291
ReloadStatsArriveLocal(t) ==
    /\ Awaiting(t, {"lrt_stats"})
    /\ retryCount' = 0
    /\ \E allStats \in StatsAnswers :
          LET r == RenderNodeLocal(tasks[t].root, Null, 0, nodeMap,
                                   StatsOf(allStats), connectionFilter,
                                   statusFilter, singleNodeMode, renderedNodes)
          IN  /\ nodeStats' = StatsOf(allStats)
              /\ nodeMap' = r.nm
              /\ renderedNodes' = r.rendered
              /\ view' = LocalView("loadAndRenderTree", tasks[t].root, r.out)
    /\ FocusNow
    /\ tasks' = [tasks EXCEPT ![t] = IdleTask]
    /\ UNCHANGED <<keyOrder, parentMap, stableRootId, singleNodeMode,
                   connectionFilter, statusFilter, messages, redirect,
                   linkModal, infoModal, gestures, srvTree, srvClicks, cacheVars, page,
                   preserveViewport, lastViewport, timers>>

\* the ids of the cards in the children container of parentId's card: the
\* cards rendered below it, not the ones inserted into its wrapper directly
\* (those are at level 0: part_001:1511-1512)
InContainer(out, parentId) ==
    LET first == {out[i].id : i \in {j \in DOMAIN out :
                      out[j].parent = parentId /\ out[j].level # 0}}
    IN  NestedIn(out, first, first)

\* the cards of out without the wrapper of nodeId: its card and all below it
WithoutWrapper(out, nodeId) ==
    LET gone == NestedIn(out, {nodeId}, {nodeId})
    IN  SelectSeq(out, LAMBDA e : e.id \notin gone)

\* where the wrapper of nodeId ends in out
WrapperEnd(out, nodeId) ==
    LET mine == NestedIn(out, {nodeId}, {nodeId})
    IN  CHOOSE k \in DOMAIN out :
           /\ out[k].id \in mine
           /\ \A j \in DOMAIN out : out[j].id \in mine => j <= k

\* updateParentContainer(parentId): part_001:329-383, on the cards out
UpdateParentContainerLocal(parentId, nm, out, rendered) ==
    LET same == [out |-> out, rendered |-> rendered, nm |-> nm]
        shown == \E i \in DOMAIN out : out[i].id = parentId
        inside == InContainer(out, parentId) \ {parentId}
        kept == SelectSeq(out, LAMBDA e : e.id \notin inside)
        r == RenderChildrenLocal(nm[parentId].children, 1, parentId, 1, nm,
                                 nodeStats, connectionFilter, statusFilter,
                                 singleNodeMode, rendered)
    IN  IF parentId = Null THEN same
        ELSE IF parentId \notin DOMAIN nm \/ nm[parentId].children = <<>>
        THEN IF shown THEN [same EXCEPT !.out = kept] ELSE same
        ELSE IF ~shown THEN same
        ELSE [out |-> SubSeq(kept, 1, WrapperEnd(kept, parentId)) \o r.out
                      \o SubSeq(kept, WrapperEnd(kept, parentId) + 1, Len(kept)),
              rendered |-> r.rendered,
              nm |-> r.nm]

\* DELETE /node/delete answered: part_001:638-680
DeleteArrivesLocal(t) ==
    LET contentId == tasks[t].id
        parentId == tasks[t].parent
        unlisted == IF parentId # Null /\ parentId \in DOMAIN nodeMap
                    THEN [nodeMap EXCEPT ![parentId].children = FilterOut(@, contentId)]
                    ELSE nodeMap
        nm == Del(unlisted, contentId)
        order == DelOrder(keyOrder, contentId)
        pm == Del(parentMap, contentId)
        grandParentId == IF parentId \in DOMAIN pm THEN pm[parentId] ELSE Null
        found == view.kind = "tree" /\ parentId \in Emitted
        cut == WithoutWrapper(view.out, parentId)
        patch == IF /\ grandParentId \in DOMAIN nm
                    /\ \E i \in DOMAIN cut : cut[i].id = grandParentId
                 THEN UpdateParentContainerLocal(grandParentId, nm, cut, renderedNodes)
                 ELSE [out |-> cut, rendered |-> renderedNodes, nm |-> nm]
        rootNodeId == IF stableRootId # Null THEN stableRootId
                      ELSE IF order # <<>> THEN order[1] ELSE Null
        pass == RenderNodeLocal(rootNodeId, Null, 0, nm, nodeStats,
                                connectionFilter, statusFilter, singleNodeMode, {})
    IN
    /\ Awaiting(t, {"dn_delete"})
    /\ retryCount' = 0
    /\ srvTree' = SrvWithoutNode(srvTree, contentId)
    /\ srvClicks' = {c \in srvClicks : contentId \notin {c[1], c[2]}}
    /\ UNCHANGED cacheVars
    /\ messages' = messages \cup {"deleted"}
    /\ IF parentId = Null
       THEN \* line 649: nothing is drawn anew
            /\ nodeMap' = nm /\ keyOrder' = order /\ parentMap' = pm
            /\ tasks' = [tasks EXCEPT ![t] = IdleTask]
            /\ UNCHANGED <<view, renderedNodes, nodeToFocusId, lastFocus>>
       ELSE IF grandParentId # Null
       THEN \* lines 653-673
            /\ keyOrder' = order /\ parentMap' = pm
            /\ tasks' = [tasks EXCEPT ![t] = IdleTask]
            /\ IF found
               THEN /\ view' = [view EXCEPT !.out = patch.out]
                    /\ nodeMap' = patch.nm
                    /\ renderedNodes' = patch.rendered
               ELSE /\ nodeMap' = nm
                    /\ UNCHANGED <<view, renderedNodes>>
            /\ UNCHANGED <<nodeToFocusId, lastFocus>>
       ELSE IF rootNodeId = Null \/ rootNodeId \notin DOMAIN nm
       THEN \* loadAndRenderVisuals gives up: part_001:1339-1344
            IF stableRootId # Null
            THEN /\ BeginReload(t, "none")
                 /\ UNCHANGED <<nodeToFocusId, lastFocus>>
            ELSE /\ nodeMap' = nm /\ keyOrder' = order /\ parentMap' = pm
                 /\ view' = View("rendering")
                 /\ renderedNodes' = {}
                 /\ tasks' = [tasks EXCEPT ![t] = IdleTask]
                 /\ UNCHANGED <<nodeToFocusId, lastFocus>>
       ELSE \* loadAndRenderVisuals(): part_001:1334-1357
            /\ keyOrder' = order /\ parentMap' = pm
            /\ nodeMap' = pass.nm
            /\ renderedNodes' = pass.rendered
            /\ view' = LocalView("loadAndRenderVisuals", rootNodeId, pass.out)
            /\ FocusNow
            /\ tasks' = [tasks EXCEPT ![t] = IdleTask]
    /\ UNCHANGED <<nodeStats, stableRootId, singleNodeMode, connectionFilter,
                   statusFilter, redirect, linkModal, infoModal, gestures, page,
                   preserveViewport, lastViewport, timers>>

\* POST /relation/create answered: part_001:1482-1524
CreateRelateArrivesLocal(t) ==
    LET parentId == tasks[t].id
        childId == tasks[t].child
        nm == CreatedLocally(nodeMap, parentId, childId)
        found == view.kind = "tree" /\ parentId \in Emitted
        card == RenderNodeLocal(childId, parentId, 0, nm, nodeStats,
                                connectionFilter, statusFilter, singleNodeMode,
                                renderedNodes)
        at == WrapperEnd(view.out, parentId)
        inserted == SubSeq(view.out, 1, at) \o card.out
                    \o SubSeq(view.out, at + 1, Len(view.out))
        patch == UpdateParentContainerLocal(parentId, card.nm, inserted,
                                            card.rendered)
    IN
    /\ Awaiting(t, {"cc_relate"})
    /\ retryCount' = 0
    /\ srvTree' = SrvWithRelation(srvTree, parentId, childId)
    /\ keyOrder' = PutOrder(keyOrder, childId)
    /\ parentMap' = Put(parentMap, childId, parentId)
    /\ IF found
       THEN /\ nodeMap' = patch.nm
            /\ renderedNodes' = patch.rendered
            /\ view' = [view EXCEPT !.out = patch.out]
            /\ nodeToFocusId' = childId
            /\ lastFocus' = childId
       ELSE \* line 1508: no card of the parent, nothing is drawn
            /\ nodeMap' = nm
            /\ UNCHANGED <<renderedNodes, view, nodeToFocusId, lastFocus>>
    /\ messages' = messages \cup {"created"}
    /\ tasks' = [tasks EXCEPT ![t] = IdleTask]
    /\ UNCHANGED <<nodeStats, stableRootId, singleNodeMode, connectionFilter,
                   statusFilter, redirect, linkModal, infoModal, gestures,
                   srvClicks, cacheVars, page, preserveViewport, lastViewport, timers>>

(* The part_001 client on every backend tree of up to MaxEdges relations,  *)
(* every request answered.                                                 *)
NextLocal ==
    \/ \E p \in Ids, c \in Ids : SetupRelation(p, c)
    \/ PageLoad(1)
    \/ \E t \in Tasks : TreeArrives(t)
    \/ \E t \in Tasks : ReloadStatsArriveLocal(t)
    \/ \E t \in Tasks, id \in Ids :
          Free(t) /\ Gesture(MaxGestures) /\ DeleteSubmit(t, id)
    \/ \E t \in Tasks : DeleteArrivesLocal(t)
    \/ \E t \in Tasks, id \in Ids :
          Free(t) /\ Gesture(MaxGestures) /\ CreateSubmit(t, id)
    \/ \E t \in Tasks : CreateArrives(t)
    \/ \E t \in Tasks : CreateRelateArrivesLocal(t)

SpecLocal == InitRender /\ [][NextLocal]_vars

\* the step in which slot t's create-child handler gets the answer to its
\* /relation/create request for childId under parentId
RelationCreated(t, parentId, childId) ==
    /\ page = "live"
    /\ tasks[t].pc = "cc_relate"
    /\ tasks[t].id = parentId
    /\ tasks[t].child = childId
    /\ tasks'[t].pc # "cc_relate"

(* C13 as stated: when createNode and createRelation have succeeded the    *)
(* handler either patches the page, which then shows a tree with the new   *)
(* node under its parent, or starts a full reload that will draw it; it    *)
(* never leaves the spinner on the page with nothing under way.            *)
C13_PatchedOrReloading ==
    [][\A t \in Tasks, parentId \in Ids, childId \in Ids :
          RelationCreated(t, parentId, childId) =>
              \/ view'.kind = "tree" /\ DrawnUnder(parentId, childId)'
              \/ tasks'[t].pc = "lrt_tree"]_vars

\* the step in which slot t's deleteNode gets the answer to its DELETE
DeleteAnswered(t) ==
    /\ page = "live"
    /\ tasks[t].pc = "dn_delete"
    /\ tasks'[t].pc # "dn_delete"

(* C14 as stated: when the backend has deleted X, deleteNode takes X out   *)
(* of the store and, if X had a recorded parent other than the root,       *)
(* redraws without fetching /tree; if the parent is the root or X had no   *)
(* recorded parent it starts a full reload with a /tree fetch.             *)
C14_SubtreeOrFullReload ==
    [][\A t \in Tasks : DeleteAnswered(t) =>
          IF tasks[t].parent # Null /\ tasks[t].parent # stableRootId
          THEN /\ tasks[t].id \notin DOMAIN nodeMap'
               /\ tasks'[t].pc # "lrt_tree"
          ELSE tasks'[t].pc = "lrt_tree"]_vars

\* the step in which slot t's request for a relation change is answered with
\* success (fetchWithRetry's retryCount = 0, line 115): the click that
\* completes a link in handleLinkSelected, or the DELETE of
\* deleteRelationFromModal
RelationChanged(t) ==
    /\ page = "live"
    /\ tasks[t].pc \in {"hl_click", "dr_delete"}
    /\ tasks'[t].pc # tasks[t].pc
    /\ retryCount' = 0

(* C15: every relation change the handler counts as successful (a link     *)
(* whose relation and click requests both succeeded in handleLinkSelected, *)
(* a relation deleted in deleteRelationFromModal) starts a full reload in  *)
(* the same step: the store is emptied and /tree is fetched.               *)
C15_RelationChangeReloads ==
    [][\A t \in Tasks : RelationChanged(t) =>
          /\ tasks'[t].pc = "lrt_tree"
          /\ view'.kind = "spinner"
          /\ nodeMap' = EmptyMap
          /\ parentMap' = EmptyMap]_vars

\* a link has been made and a relation deleted, and the reload of the later
\* of the two is fetching /tree
C15_Witness ==
    /\ {"linked", "unlinked"} \subseteq messages
    /\ \E t \in Tasks : tasks[t].pc = "lrt_tree"
    /\ nodeMap = EmptyMap

(* C16: a successful edit of X that finds X and the root in the store      *)
(* changes, of the store's structure, nothing: nodeMap keeps its keys,     *)
(* every node keeps its children sequence, every node but X keeps its      *)
(* name, description and status, parentMap and stableRootId stay, and no   *)
(* /tree fetch is issued.                                                  *)
C16_EditTouchesOnlyItsNode ==
    [][\A t \in Tasks :
          (/\ EditSucceeds(t)
           /\ tasks[t].id \in DOMAIN nodeMap
           /\ stableRootId \in DOMAIN nodeMap) =>
              /\ DOMAIN nodeMap' = DOMAIN nodeMap
              /\ \A k \in DOMAIN nodeMap :
                    /\ nodeMap'[k].children = nodeMap[k].children
                    /\ k # tasks[t].id =>
                          /\ nodeMap'[k].name = nodeMap[k].name
                          /\ nodeMap'[k].description = nodeMap[k].description
                          /\ nodeMap'[k].status = nodeMap[k].status
              /\ keyOrder' = keyOrder
              /\ parentMap' = parentMap
              /\ stableRootId' = stableRootId
              /\ \A u \in Tasks : tasks'[u].pc = "lrt_tree" => tasks[u].pc = "lrt_tree"]_vars

\* the edit of a node with a child has been written to the store, and the
\* redraw it started awaits its stats
C16_Witness ==
    /\ "updated" \in messages
    /\ "update_failed" \notin messages
    /\ \E t \in Tasks : tasks[t].pc = "lrv_stats"
    /\ nodeToFocusId \in DOMAIN nodeMap
    /\ nodeMap[nodeToFocusId].name = "new"
    /\ nodeMap[nodeToFocusId].children # <<>>
    /\ SrvNode(stableRootId).name = "new"

\* the cards the step puts on the page: those of the tree it writes that
\* were not on the page before
DrawnNow ==
    IF view'.kind # "tree" \/ view'.out = view.out THEN {}
    ELSE Range(view'.out) \ Range(view.out)

-----------------------------------------------------------------------------
(* The cached client: src/unnamed/part_000.  loadAndRenderTree keeps the   *)
(* last /tree answer in localStorage and serves it while it is younger     *)
(* than CACHE_EXPIRY.  renderNode (961-1030), isNodeVisible (284-310) and  *)
(* the forms up to their requests are the code modelled above.             *)

CACHE_EXPIRY == 5 * 60 * 1000

Minute == 60 * 1000     \* the step the clock advances by
MaxMinutes == 6         \* how long the page is watched

\* time passes between two events
Tick ==
    /\ page = "live"
    /\ clock < MaxMinutes * Minute
    /\ clock' = clock + Minute
    /\ UNCHANGED <<nodeMap, keyOrder, parentMap, nodeStats, stableRootId,
                   renderedNodes, singleNodeMode, retryCount, connectionFilter,
                   statusFilter, view, messages, redirect, tasks, linkModal,
                   infoModal, gestures, srvTree, srvClicks, page, focusVars,
                   treeCache>>

RECURSIVE ProcessParents(_, _, _, _)
\* node.children.forEach(childId => { if (childId) parentMap[childId] = node.contentId; })
\* for every node of the list: part_000:1140-1152
ProcessParents(nodes, i, j, pm) ==
    IF i > Len(nodes) THEN pm
    ELSE IF j > Len(nodes[i].children) THEN ProcessParents(nodes, i + 1, 1, pm)
    ELSE ProcessParents(nodes, i, j + 1,
            IF nodes[i].children[j] # Null
            THEN Put(pm, nodes[i].children[j], nodes[i].contentId)
            ELSE pm)

\* processTreeData(nodes) on a list that is not empty, with the synchronous
\* loadAndRenderVisuals(rootNodeId) it ends in: part_000:1135-1163, 1191-1214.
\* focus is nodeToFocusId as the caller leaves it.
ProcessTreeData(nodes, focus) ==
    LET a == IngestNodes(nodes, 1, [nm |-> EmptyMap, order |-> <<>>])
        rootNodeId == nodes[1].contentId
        numbered == AssignFriendlyIds(nodes, 1, 1, a.nm)     \* part_000:1155
        r == RenderNodeLocal(rootNodeId, Null, 0, numbered, nodeStats,
                             connectionFilter, statusFilter, singleNodeMode, {})
    IN  /\ nodeMap' = r.nm
        /\ keyOrder' = a.order
        /\ parentMap' = ProcessParents(nodes, 1, 1, EmptyMap)
        /\ stableRootId' = rootNodeId
        /\ renderedNodes' = r.rendered
        /\ view' = [kind |-> "tree", out |-> r.out, by |-> "loadAndRenderTree",
                    root |-> rootNodeId, vis |-> {}, raw |-> {},
                    viewport |-> IF focus # Null THEN "focus" ELSE "none"]
        /\ lastFocus' = IF focus # Null THEN focus ELSE lastFocus
        /\ nodeToFocusId' = Null

\* loadAndRenderTree() up to its await: part_000:1096-1115.  A cached entry
\* younger than CACHE_EXPIRY is processed and the function returns; else the
\* loading text is shown and /tree is requested.
LoadAndRenderTreeCached(t, focus) ==
    IF treeCache.data # <<>> /\ clock - treeCache.timestamp < CACHE_EXPIRY
    THEN /\ ProcessTreeData(treeCache.data, focus)
         /\ tasks' = [tasks EXCEPT ![t] = IdleTask]
    ELSE /\ view' = View("spinner")
         /\ renderedNodes' = {}
         /\ nodeToFocusId' = focus
         /\ tasks' = [tasks EXCEPT ![t] =
                Fetching([IdleTask EXCEPT !.now = clock], "lrt_tree")]
         /\ UNCHANGED <<nodeMap, keyOrder, parentMap, stableRootId, lastFocus>>

\* DOMContentLoaded: the initial loadAndRenderTree()
PageLoadCached(t) ==
    /\ page = "setup"
    /\ page' = "live"
    /\ LoadAndRenderTreeCached(t, nodeToFocusId)
    /\ UNCHANGED <<nodeStats, singleNodeMode, retryCount, connectionFilter,
                   statusFilter, messages, redirect, linkModal, infoModal,
                   gestures, srvTree, srvClicks, preserveViewport,
                   lastViewport, timers, cacheVars>>

\* /tree answered: part_000:1115-1127.  The answer is stored with the time
\* the function read when it started.
TreeArrivesCached(t) ==
    /\ Awaiting(t, {"lrt_tree"})
    /\ retryCount' = 0
    /\ IF Len(srvTree) = 0
       THEN /\ view' = View("noroot")
            /\ UNCHANGED <<nodeMap, keyOrder, parentMap, stableRootId,
                           renderedNodes, nodeToFocusId, lastFocus, treeCache>>
       ELSE /\ treeCache' = [data |-> srvTree, timestamp |-> tasks[t].now]
            /\ ProcessTreeData(srvTree, nodeToFocusId)
    /\ tasks' = [tasks EXCEPT ![t] = IdleTask]
    /\ UNCHANGED <<nodeStats, singleNodeMode, connectionFilter, statusFilter,
                   messages, redirect, linkModal, infoModal, gestures, srvTree,
                   srvClicks, page, preserveViewport, lastViewport, timers,
                   clock>>

\* the DELETE answered: deleteNode, part_000:432-434
DeleteArrivesCached(t) ==
    /\ Awaiting(t, {"dn_delete"})
    /\ retryCount' = 0
    /\ srvTree' = SrvWithoutNode(srvTree, tasks[t].id)
    /\ srvClicks' = {c \in srvClicks : tasks[t].id \notin {c[1], c[2]}}
    /\ messages' = messages \cup {"success"}
    /\ LoadAndRenderTreeCached(t, nodeToFocusId)
    /\ UNCHANGED <<nodeStats, singleNodeMode, connectionFilter, statusFilter,
                   redirect, linkModal, infoModal, gestures, page,
                   preserveViewport, lastViewport, timers, cacheVars>>

\* POST /relation/create answered: part_000:1315-1323
CreateRelateArrivesCached(t) ==
    /\ Awaiting(t, {"cc_relate"})
    /\ retryCount' = 0
    /\ srvTree' = SrvWithRelation(srvTree, tasks[t].id, tasks[t].child)
    /\ messages' = messages \cup {"success"}
    /\ LoadAndRenderTreeCached(t, tasks[t].child)
    /\ UNCHANGED <<nodeStats, singleNodeMode, connectionFilter, statusFilter,
                   redirect, linkModal, infoModal, gestures, srvClicks, page,
                   preserveViewport, lastViewport, timers, cacheVars>>

(* Handlers overlapping at their awaits on a reliable network, with time   *)
(* passing in between.                                                     *)
NextCached ==
    \/ PageLoadCached(1)
    \/ Tick
    \/ \E t \in Tasks : TreeArrivesCached(t)
    \/ \E t \in Tasks, id \in Ids :
          Free(t) /\ Gesture(MaxGestures) /\ DeleteSubmit(t, id)
    \/ \E t \in Tasks : DeleteArrivesCached(t)
    \/ \E t \in Tasks, id \in Ids :
          Free(t) /\ Gesture(MaxGestures) /\ CreateSubmit(t, id)
    \/ \E t \in Tasks : CreateArrives(t)
    \/ \E t \in Tasks : CreateRelateArrivesCached(t)

SpecCached == InitLinked /\ [][NextCached]_vars

\* a request that changes the backend's tree is answered with success
MutationSucceeds(t) ==
    /\ tasks[t].pc \in {"dn_delete", "cc_relate"}
    /\ tasks'[t].pc # tasks[t].pc
    /\ srvTree' # srvTree

\* C18: the loadAndRenderTree that follows a successful mutation does not
\* serve the cached tree: it requests /tree, whatever the age of the cached
\* entry.
C18_MutationBypassesCache ==
    [][\A t \in Tasks : MutationSucceeds(t) => tasks'[t].pc = "lrt_tree"]_vars

-----------------------------------------------------------------------------
\* C19: a render pass that loadAndRenderVisuals starts comes to an end on
\* every store loadAndRenderTree can build, one whose children lists form a
\* cycle or a self-loop included: the page is never caught in a loop without
\* end.
C19_RenderPassTerminates == page # "hung"

-----------------------------------------------------------------------------
\* the step in which the render pass run by t returns, by whichever path
PassReturns(t) ==
    /\ tasks[t].pc \in {"lrt_stats", "lrv_stats"}
    /\ tasks'[t].pc = "idle"

\* C20: a render pass leaves the store as it found it: when it returns,
\* every node's children sequence is the sequence it was, in the same order,
\* and no node carries a _forceVisible flag.
C20_PassLeavesStoreAlone ==
    [][\A t \in Tasks : PassReturns(t) =>
          /\ DOMAIN nodeMap' = DOMAIN nodeMap
          /\ \A k \in DOMAIN nodeMap :
                /\ nodeMap'[k].children = nodeMap[k].children
                /\ ~nodeMap'[k].force]_vars

-----------------------------------------------------------------------------
\* every id is listed as a child at most once in the whole store: no
\* cross-link, no duplicate entry, and so no node with two parents
NoCrossLinks(nm) ==
    \A c \in Ids, p \in DOMAIN nm, q \in DOMAIN nm :
        (c \in Range(nm[p].children) /\ c \in Range(nm[q].children))
            => (p = q /\ Count(nm[p].children, c) = 1)

\* the same store with every children list held in the opposite order
ChildrenReversed(nm) ==
    [k \in DOMAIN nm |->
        [nm[k] EXCEPT !.children =
            [i \in DOMAIN nm[k].children |->
                nm[k].children[Len(nm[k].children) + 1 - i]]]]

-----------------------------------------------------------------------------
RECURSIVE ReachBelow(_, _, _)
\* the ids reached from frontier in one step or more, kidsOf giving the set of
\* children of each id that has any
ReachBelow(kidsOf, frontier, seen) ==
    LET next == UNION {kidsOf[p] : p \in frontier \cap DOMAIN kidsOf} \ seen
    IN  IF next = {} THEN seen ELSE ReachBelow(kidsOf, next, seen \cup next)

\* the children links of a /tree answer and those of the store
RespKids(resp) ==
    [n \in RespIds(resp) |->
        UNION {Range(resp[i].children) : i \in {j \in DOMAIN resp : resp[j].contentId = n}}]

StoreKids(nm) == [n \in DOMAIN nm |-> Range(nm[n].children)]

\* no node of the answer reaches itself, and every child id is a node of it
AcyclicAndComplete(resp) ==
    /\ \A n \in RespIds(resp) : n \notin ReachBelow(RespKids(resp), {n}, {})
    /\ \A n \in RespIds(resp) : RespKids(resp)[n] \subseteq RespIds(resp)

\* the step in which loadAndRenderTree has built the store from /tree's answer
StoreBuilt(t) == tasks[t].pc = "lrt_tree" /\ tasks'[t].pc = "lrt_stats"

(* C22: the store loadAndRenderTree builds from an acyclic /tree answer    *)
(* that holds all the children it names has the reachability of the       *)
(* answer: m is reached from n over children lists in nodeMap exactly when *)
(* it is in the answer, and every parentMap entry c -> p is an edge p -> c *)
(* of the answer.                                                          *)
C22_StoreKeepsReachability ==
    [][\A t \in Tasks : (StoreBuilt(t) /\ AcyclicAndComplete(srvTree)) =>
          /\ DOMAIN nodeMap' = RespIds(srvTree)
          /\ \A n \in Ids :
                ReachBelow(StoreKids(nodeMap'), {n}, {})
                    = ReachBelow(RespKids(srvTree), {n}, {})
          /\ \A c \in DOMAIN parentMap' : RespLists(srvTree, parentMap'[c], c)]_vars

\* the store has just been built from an acyclic, complete answer in which a
\* node has a grandchild
C22_Witness ==
    /\ \E t \in Tasks : tasks[t].pc = "lrt_stats" /\ tasks[t].resp = srvTree
    /\ AcyclicAndComplete(srvTree)
    /\ \E a \in Ids, b \in Ids, c \in Ids :
          /\ ListsChild(a, b) /\ ListsChild(b, c)
          /\ c \in DOMAIN parentMap /\ parentMap[c] = b

-----------------------------------------------------------------------------
\* the class of the children container renderNode writes into the card of
\* nodeId, given the cards kidsOut its children rendered to:
\* flowchart.js:593-595
ContainerClass(nodeId, nm, kidsOut) ==
    IF kidsOut = <<>> THEN "none"
    ELSE IF Len(nm[nodeId].children) = 1 THEN "tree-container single-child-container"
    ELSE "tree-container"

\* the cards of out that stand directly in the card of nodeId
CardsIn(out, nodeId) == SelectSeq(out, LAMBDA card : card.parent = nodeId)

\* the store in which a lists b once, where it first listed it
WithOneEntry(nm, a, b) ==
    LET s == nm[a].children
        first == CHOOSE i \in DOMAIN s : s[i] = b /\ \A j \in 1..(i - 1) : s[j] # b
    IN  [nm EXCEPT ![a].children =
            SubSeq(s, 1, first) \o FilterOut(SubSeq(s, first + 1, Len(s)), b)]

\* what the pass that completes in this step would have written on store nm
PassOutputOn(t, nm) ==
    RenderNode(tasks[t].root, Null, 0, nm, nodeStats', connectionFilter,
               statusFilter, singleNodeMode, renderedNodes).out

-----------------------------------------------------------------------------
(* isNodeVisible on every node, stats entry and filter setting: the page   *)
(* in the middle of loadAndRenderVisuals, suspended at its fetchAllStats   *)
(* (flowchart.js:527), with a store of up to two nodes, some of them       *)
(* marked _forceVisible, and any filter setting; /stats/all then answers   *)
(* with any counts, for any of the nodes.                                  *)

MaxCount == 2      \* the largest click count /stats/all reports

StoreIds == {1, 2}

AnyStore ==
    {nm \in UNION {[K -> [status : Statuses, force : BOOLEAN]] : K \in SUBSET StoreIds} :
        nm # EmptyMap}

InitVisible ==
    /\ \E shape \in AnyStore :
          /\ nodeMap = [k \in DOMAIN shape |->
                [status |-> shape[k].status, force |-> shape[k].force,
                 children |-> IF k = 1 /\ 2 \in DOMAIN shape THEN <<2>> ELSE <<>>,
                 name |-> "old", description |-> "old",
                 friendlyId |-> PadStart2(k)]]
          /\ keyOrder = SortIds(IF DOMAIN shape = StoreIds THEN <<1, 2>>
                                ELSE <<CHOOSE k \in DOMAIN shape : TRUE>>)
          /\ parentMap = IF DOMAIN shape = StoreIds THEN Put(EmptyMap, 2, 1) ELSE EmptyMap
          /\ stableRootId = keyOrder[1]
          /\ tasks = [t \in Tasks |->
                IF t = 1 THEN Fetching([IdleTask EXCEPT !.root = keyOrder[1]], "lrv_stats")
                ELSE IdleTask]
    /\ connectionFilter \in {"all", "inbound", "outbound"}
    /\ statusFilter \in {"all"} \cup Statuses
    /\ nodeStats = EmptyMap
    /\ renderedNodes = {}
    /\ singleNodeMode = FALSE
    /\ retryCount = 0
    /\ view = View("rendering")
    /\ messages = {}
    /\ redirect = FALSE
    /\ linkModal = ClosedModal
    /\ infoModal = ClosedInfo
    /\ gestures = 0
    /\ srvTree = <<>>
    /\ srvClicks = {}
    /\ treeCache = [data |-> <<>>, timestamp |-> 0]
    /\ clock = 0
    /\ page = "live"
    /\ nodeToFocusId = Null
    /\ preserveViewport = TRUE
    /\ lastViewport = FALSE
    /\ timers = <<>>
    /\ lastFocus = Null

\* what /stats/all may answer when nothing is known of the backend: rows for
\* any of the ids, with any counts
AnyStatsAnswers ==
    UNION {[K -> [total_inbound_count : 0..MaxCount,
                  total_outbound_count : 0..MaxCount]] : K \in SUBSET StoreIds}

\* /stats/all answered inside loadAndRenderVisuals: flowchart.js:373-385, 527-557
VisualsAnyStatsArrive(t) ==
    /\ Awaiting(t, {"lrv_stats"})
    /\ retryCount' = 0
    /\ UNCHANGED <<messages, redirect>>
    /\ \E allStats \in AnyStatsAnswers : VisualsTail(t, StatsOf(allStats))

NextVisible == VisualsAnyStatsArrive(1)

SpecVisible == InitVisible /\ [][NextVisible]_vars

\* the predicate isNodeVisible is to compute
VisibleByRule(id, nm, stats, conn, sf) ==
    IF id \notin DOMAIN nm THEN FALSE
    ELSE IF nm[id].force THEN TRUE
    ELSE /\ conn = "inbound" => (id \notin DOMAIN stats \/ stats[id].inboundCount > 0)
         /\ conn = "outbound" => (id \notin DOMAIN stats \/ stats[id].outboundCount > 0)
         /\ (sf = "all" \/ nm[id].status = sf)

(* C24: isNodeVisible(id) is the reference predicate: false for an id that *)
(* is not in the store, true for a node marked _forceVisible, and else the *)
(* conjunction of the connection criterion, which a node without a stats   *)
(* entry passes, and the status criterion.                                 *)
C24_VisibleAsSpecified ==
    [][\A t \in Tasks : RenderCompletes(t) =>
          view'.vis = {id \in Ids : VisibleByRule(id, nodeMap, nodeStats',
                                                  connectionFilter, statusFilter)}]_vars

\* a pass has tested, under the inbound filter, a node without a stats entry
\* and an unmarked node with an inbound count of 0
C24_Witness ==
    /\ PassDone
    /\ connectionFilter = "inbound"
    /\ \E a \in DOMAIN nodeMap, b \in DOMAIN nodeMap :
          /\ a \notin DOMAIN nodeStats /\ a \in view.vis
          /\ b \in DOMAIN nodeStats /\ nodeStats[b].inboundCount = 0
          /\ b \notin view.vis

-----------------------------------------------------------------------------
(* applyFilters with its two search boxes: flowchart.js:314-368.  Text is  *)
(* a sequence of characters.                                               *)

\* the name and description the model's nodes carry, as text
TextOf(str) ==
    CASE str = "old" -> <<"o", "l", "d">>
      [] str = "new" -> <<"n", "e", "w">>
      [] OTHER -> <<>>

\* s.toLowerCase() on the letters that occur
ToLowerCase(s) ==
    [i \in DOMAIN s |->
        CASE s[i] = "O" -> "o" [] s[i] = "L" -> "l" [] s[i] = "D" -> "d"
          [] s[i] = "N" -> "n" [] s[i] = "E" -> "e" [] s[i] = "W" -> "w"
          [] OTHER -> s[i]]

RECURSIVE Trim(_)
\* s.trim()
Trim(s) ==
    IF s = <<>> THEN s
    ELSE IF Head(s) = " " THEN Trim(Tail(s))
    ELSE IF s[Len(s)] = " " THEN Trim(SubSeq(s, 1, Len(s) - 1))
    ELSE s

\* s.includes(q)
Includes(s, q) ==
    \E i \in 1..(Len(s) - Len(q) + 1) : SubSeq(s, i, i + Len(q) - 1) = q

\* the test on one node with a name query that counts from its first character
MatchesSearchFromOneChar(node, nameQ, idQ) ==
    LET matchesName ==
            IF Len(nameQ) >= 1
            THEN \/ Includes(ToLowerCase(TextOf(node.name)), nameQ)
                 \/ Includes(ToLowerCase(TextOf(node.description)), nameQ)
            ELSE TRUE
        matchesId ==
            IF Len(idQ) >= 1 THEN Includes(ToLowerCase(node.friendlyId), idQ)
            ELSE TRUE
    IN  matchesName /\ matchesId

\* the test of lines 328-336 on one node, for the trimmed, lowered queries
MatchesSearch(node, nameQ, idQ) ==
    LET matchesName ==
            IF Len(nameQ) >= 2
            THEN \/ Includes(ToLowerCase(TextOf(node.name)), nameQ)
                 \/ Includes(ToLowerCase(TextOf(node.description)), nameQ)
            ELSE TRUE
        matchesId ==
            IF Len(idQ) >= 1 THEN Includes(ToLowerCase(node.friendlyId), idQ)
            ELSE TRUE
    IN  matchesName /\ matchesId

\* for (const id in nodeMap) { ... if (matchesName && matchesId) { foundNodeId = id; break; } }
FoundNodeId(nameQ, idQ) ==
    LET hits == {i \in DOMAIN keyOrder : MatchesSearch(nodeMap[keyOrder[i]], nameQ, idQ)}
    IN  IF hits = {} THEN Null
        ELSE keyOrder[CHOOSE i \in hits : \A j \in hits : i <= j]

\* what the user may have typed into the name box and into the id box
NameInputs == {<<>>, <<"n">>, <<"O", "l">>, <<" ", "l", "d", " ">>, <<"n", "e">>}
IdInputs == {<<>>, <<"2">>, <<"0", "3">>, <<"9">>}

\* the user sets the selects and the search boxes and the change handler runs
ApplyFiltersSearching(t, conn, sf, nameInput, idInput) ==
    LET nameQ == ToLowerCase(Trim(nameInput))
        idQ == ToLowerCase(Trim(idInput))
        foundNodeId == FoundNodeId(nameQ, idQ)
    IN  IF Len(nameQ) >= 2 \/ Len(idQ) >= 1
        THEN /\ Awaiting(t, {"idle"})
             /\ connectionFilter' = conn
             /\ statusFilter' = sf
             /\ IF foundNodeId # Null
                THEN /\ singleNodeMode' = TRUE
                     /\ nodeToFocusId' = foundNodeId
                     /\ preserveViewport' = FALSE
                     /\ BeginVisuals(t, foundNodeId, nodeMap, nodeStats, conn, sf)
                     /\ messages' = messages \cup {"info"}
                     /\ UNCHANGED <<lastViewport, timers, lastFocus>>
                ELSE /\ singleNodeMode' = FALSE
                     /\ view' = View("nomatch")
                     /\ UNCHANGED <<nodeMap, keyOrder, parentMap, renderedNodes,
                                    tasks, messages, page, focusVars>>
             /\ UNCHANGED <<nodeStats, stableRootId, retryCount, redirect,
                            linkModal, infoModal, srvTree, srvClicks, cacheVars>>
        ELSE ApplyFilters(t, conn, sf)

\* the backend holds three nodes in a chain, listed in one order or another;
\* some of them are named "new", all are described as "old"
InitSearch ==
    /\ ClientInit
    /\ lastViewport = FALSE
    /\ \E o \in {<<1, 2, 3>>, <<3, 1, 2>>} : \E st \in StatusChoicesFor(o) :
       \E named \in {{}, {2}, {1, 3}} :
          srvTree = SrvWithRelation(
                        SrvWithRelation(
                            [i \in DOMAIN o |->
                                IF o[i] \in named
                                THEN [BareNode(o[i], st[o[i]]) EXCEPT !.name = "new"]
                                ELSE BareNode(o[i], st[o[i]])],
                            o[1], o[2]),
                        o[2], o[3])

(* One handler at a time, every request answered: the filters and the      *)
(* search boxes on a chain of three nodes.                                 *)
NextSearch ==
    \/ PageLoad(1)
    \/ TreeArrives(1)
    \/ ReloadStatsArrive(1)
    \/ \E f \in FilterChoices, nameInput \in NameInputs, idInput \in IdInputs :
          /\ Gesture(MaxGestures)
          /\ ApplyFiltersSearching(1, f[1], f[2], nameInput, idInput)
    \/ FilterStatsArrive(1)
    \/ VisualsStatsArrive(1)
    \/ \E i \in DOMAIN timers : FocusFires(i)

SpecSearch == InitSearch /\ [][NextSearch]_vars


\* the step in which the render of a search result writes its tree
SearchRenderCompletes(t) == RenderCompletes(t) /\ singleNodeMode

(* C25: when a search in applyFilters has found a node, the first match in *)
(* the iteration order of nodeMap, the render that follows writes exactly  *)
(* that node's card, without its children, whatever the connection and     *)
(* status filters are set to.                                              *)
C25_SearchShowsTheOneNode ==
    [][\A t \in Tasks : SearchRenderCompletes(t) =>
          /\ tasks[t].root \in DOMAIN nodeMap
          /\ view'.out = <<[id |-> tasks[t].root, parent |-> Null, level |-> 0]>>]_vars


\* the change handler runs with these texts in the name box and the id box
SearchStep(t, nameInput, idInput) ==
    /\ Gesture(MaxGestures)
    /\ ApplyFiltersSearching(t, connectionFilter', statusFilter', nameInput, idInput)

\* the nodes the two queries leave: the id query counts from one character,
\* the name query from two
Candidates(nameQ, idQ) ==
    {id \in DOMAIN nodeMap :
        /\ Len(idQ) >= 1 => Includes(nodeMap[id].friendlyId, idQ)
        /\ Len(nameQ) >= 2 =>
              \/ Includes(TextOf(nodeMap[id].name), nameQ)
              \/ Includes(TextOf(nodeMap[id].description), nameQ)}

(* C26: in applyFilters a name query of fewer than 2 characters never      *)
(* restricts the match, and with an empty id query it does not start a     *)
(* search at all; an id query of 1 or more characters always starts a      *)
(* search and restricts the matches to the nodes whose friendlyId contains *)
(* it; when both queries are active the node found satisfies both.         *)
C26_QueryLengthsDecide ==
    [][\A nameInput \in NameInputs, idInput \in IdInputs :
          SearchStep(1, nameInput, idInput) =>
             LET nameQ == ToLowerCase(Trim(nameInput))
                 idQ == ToLowerCase(Trim(idInput))
                 searching == Len(idQ) >= 1 \/ Len(nameQ) >= 2
                 cands == Candidates(nameQ, idQ)
             IN  /\ ~searching =>
                       \/ tasks'[1].pc = "af_stats" /\ view' = view
                       \/ ~singleNodeMode' /\ view'.kind # "nomatch"
                 /\ (searching /\ cands = {}) =>
                       ~singleNodeMode' /\ view'.kind = "nomatch"
                 /\ (searching /\ cands # {}) =>
                       /\ singleNodeMode'
                       /\ nodeToFocusId' \in cands
                       /\ tasks'[1].root = nodeToFocusId']_vars

\* a search is running its render on a node named "new" that is not the
\* first key of the store
C26_Witness ==
    /\ singleNodeMode
    /\ tasks[1].pc = "lrv_stats"
    /\ nodeToFocusId \in DOMAIN nodeMap
    /\ nodeToFocusId # keyOrder[1]
    /\ nodeMap[nodeToFocusId].name = "new"
    /\ nodeMap[keyOrder[1]].name = "old"


\* the step in which loadAndRenderVisuals writes its tree under the
\* connection filter 'inbound'
InboundRenderCompletes(t) ==
    /\ RenderCompletes(t)
    /\ tasks[t].pc = "lrv_stats"
    /\ connectionFilter = "inbound"
    /\ ~singleNodeMode

\* the cards of the page whose node has an inbound count of 0 in the cache
\* and no descendant with a count above 0
ZeroInboundLeftovers ==
    {id \in Emitted \cap DOMAIN nodeStats :
        /\ nodeStats[id].inboundCount = 0
        /\ \A d \in (Descendants(id) \ {id}) \cap DOMAIN nodeStats :
              nodeStats[d].inboundCount = 0}

(* C27: with the connection filter 'inbound' and an empty stats cache      *)
(* every node passes the connection criterion; once the stats have been    *)
(* fetched and the render that follows has completed, the rendered tree    *)
(* holds no node with inboundCount 0 other than ancestors of a node with   *)
(* inboundCount above 0.                                                   *)
C27_InboundFilterAfterStats ==
    [][/\ (connectionFilter = "inbound" /\ nodeStats = EmptyMap) =>
              \A id \in DOMAIN nodeMap :
                  IsNodeVisible(id, nodeMap, nodeStats, "inbound", "all")
       /\ \A t \in Tasks : InboundRenderCompletes(t) => ZeroInboundLeftovers' = {}]_vars


\* the step in which loadAndRenderTree receives an empty list from /tree
EmptyTreeArrives(t) ==
    /\ tasks[t].pc = "lrt_tree"
    /\ tasks'[t].pc = "idle"
    /\ retryCount' = 0
    /\ srvTree = <<>>

(* C28: when /tree returns an empty list, loadAndRenderTree raises no      *)
(* exception, shows the 'No Root Node found' state and not the error       *)
(* state, and leaves the store with no nodes, no parent entries and no     *)
(* root id.                                                                *)
C28_EmptyTreeLeavesNothing ==
    [][\A t \in Tasks : EmptyTreeArrives(t) =>
          /\ view'.kind = "noroot"
          /\ "fatal" \in messages' => "fatal" \in messages
          /\ nodeMap' = EmptyMap
          /\ parentMap' = EmptyMap
          /\ stableRootId' = Null]_vars


\* stableRootId is set and no reload is suspended between line 707 and its
\* render: the reload that set it has succeeded
RootSetByFinishedReload ==
    /\ stableRootId # Null
    /\ \A t \in Tasks : tasks[t].pc # "lrt_stats"

(* C29: once a full reload has succeeded, stableRootId is never null and   *)
(* never changes value for the rest of the session, whatever reloads,      *)
(* patches and filter changes follow.                                      *)
C29_StableRootStays ==
    [][RootSetByFinishedReload => stableRootId' = stableRootId]_vars


\* k in decimal, left-padded with zeros to two digits, for k below 100
TwoDigits(k) ==
    LET d == <<"0", "1", "2", "3", "4", "5", "6", "7", "8", "9">>
    IN  <<d[(k \div 10) + 1], d[(k % 10) + 1]>>

(* C30: after a successful full reload the node at position k of the /tree *)
(* response, counted from 1, has the friendlyId k in decimal padded with   *)
(* zeros to 2 digits, every node in nodeMap has a friendlyId and no two    *)
(* nodes of nodeMap share one.                                             *)
C30_FriendlyIdsNumberTheResponse ==
    [][\A t \in Tasks : ReloadCompletes(t) =>
          LET resp == tasks[t].resp IN
          /\ \A k \in DOMAIN resp :
                /\ resp[k].contentId \in DOMAIN nodeMap'
                /\ nodeMap'[resp[k].contentId].friendlyId = TwoDigits(k)
          /\ \A id \in DOMAIN nodeMap' : nodeMap'[id].friendlyId # <<>>
          /\ \A a \in DOMAIN nodeMap', b \in DOMAIN nodeMap' :
                nodeMap'[a].friendlyId = nodeMap'[b].friendlyId => a = b]_vars

(* The handlers of flowchart.js:1-873 that write the store, overlapping at *)
(* their awaits: the full reload, the filters and the create-child form.   *)
NextCreate ==
    \/ PageLoad(1)
    \/ \E t \in Tasks : TreeArrives(t)
    \/ \E t \in Tasks : ReloadStatsArrive(t)
    \/ \E t \in Tasks : VisualsStatsArrive(t)
    \/ \E t \in Tasks, f \in FilterChoices :
          Free(t) /\ Gesture(MaxGestures) /\ ApplyFilters(t, f[1], f[2])
    \/ \E t \in Tasks : FilterStatsArrive(t)
    \/ \E t \in Tasks, id \in Ids :
          Free(t) /\ Gesture(MaxGestures) /\ CreateSubmit(t, id)
    \/ \E t \in Tasks : CreateArrives(t)
    \/ \E t \in Tasks : CreateRelateArrives(t)
    \/ \E i \in DOMAIN timers : FocusFires(i)

SpecCreate == InitLinked /\ [][NextCreate]_vars


(* C31: after any render pass completes the view is not empty: it shows at *)
(* least one node, or a contextual message ('no nodes', 'no match'), or an *)
(* error state.                                                            *)
C31_ViewNeverBlank ==
    view.kind = "tree" => view.out # <<>>


(* C32: every render pass that completes on a store whose root passes the  *)
(* filter emits a tree that contains the root, also when another pass      *)
(* started or finished while this one was suspended on its fetch; the      *)
(* visited set the pass used holds only ids the pass itself visited.       *)
C32_PassEmitsItsRoot ==
    [][\A t \in Tasks : RenderCompletes(t) =>
          /\ tasks[t].root \in view'.vis =>
                \E i \in DOMAIN view'.out : view'.out[i].id = tasks[t].root
          /\ renderedNodes' = {view'.out[i].id : i \in DOMAIN view'.out}]_vars


\* the step in which loadAndRenderVisuals compiles and writes its tree
VisualsCompletes(t) ==
    /\ RenderCompletes(t)
    /\ tasks[t].pc = "lrv_stats"

(* C33: while a render pass compiles the tree, every node the same pass    *)
(* marked force-visible in its ancestor-marking step still carries the     *)
(* flag: the cleanup of another, overlapping pass never removes the marks  *)
(* before the pass that set them has rendered.                             *)
C33_MarksLastUntilRender ==
    [][\A t \in Tasks : VisualsCompletes(t) =>
          \A k \in tasks[t].marked \cap DOMAIN nodeMap : nodeMap[k].force]_vars


(* One handler at a time on the chain of three nodes: the filters and the  *)
(* search boxes, then the edit form and the delete button of a card.       *)
NextSearchEdit ==
    \/ NextSearch
    \/ \E id \in Ids : Gesture(MaxGestures) /\ EditSubmit(1, id)
    \/ EditArrives(1)
    \/ \E id \in Ids : Gesture(MaxGestures) /\ DeleteSubmit(1, id)
    \/ DeleteArrives(1)

SpecSearchEdit == InitSearch /\ [][NextSearchEdit]_vars

\* the step in which the edit handler starts its render from the root
EditStartsRender(t) ==
    /\ tasks[t].pc = "edit_put"
    /\ tasks'[t].pc = "lrv_stats"

(* C34: single-node mode only suppresses the children of the node a search *)
(* selected: a later render that starts from the root because of an edit   *)
(* or a full reload runs with singleNodeMode off and draws the visible     *)
(* children of the root.                                                   *)
C34_SingleNodeModeEndsWithSearch ==
    [][\A t \in Tasks :
          /\ EditStartsRender(t) => ~singleNodeMode'
          /\ ReloadCompletes(t) =>
                view'.out = RenderNode(tasks[t].root, Null, 0, nodeMap, nodeStats',
                                       connectionFilter, statusFilter, FALSE,
                                       renderedNodes).out]_vars


(* One handler at a time on a network that may drop any request: no        *)
(* fetchWithRetry call starts while another one is in flight.              *)
NextFaultyAlone ==
    \/ PageLoad(1)
    \/ TreeArrives(1)
    \/ ReloadStatsArrive(1)
    \/ VisualsStatsArrive(1)
    \/ \E f \in FilterChoices :
          Gesture(MaxGestures) /\ ApplyFilters(1, f[1], f[2])
    \/ FilterStatsArrive(1)
    \/ \E id \in Ids : Gesture(MaxGestures) /\ EditSubmit(1, id)
    \/ EditArrives(1)
    \/ NetworkFails(1)
    \/ TreeFatal(1)
    \/ ReloadStatsFatal(1)
    \/ VisualsStatsFatal(1)
    \/ FilterStatsFatal(1)
    \/ EditFatal(1)
    \/ \E i \in DOMAIN timers : FocusFires(i)
    \/ RedirectFires

SpecRetryAlone == InitLinked /\ [][NextFaultyAlone]_vars

\* the step in which an attempt of t's call fails with no retries left
FailsFatally(t) == AttemptFailed(t) /\ retryCount = MAX_RETRIES

(* C35: retryCount always stays within 0..MAX_RETRIES, and every           *)
(* fetchWithRetry call that starts while no other call is in flight gets   *)
(* the full budget of MAX_RETRIES retries before it fails fatally,         *)
(* whatever the outcome of earlier calls.                                  *)
C35_EveryCallGetsFullBudget ==
    [][/\ retryCount' \in 0..MAX_RETRIES
       /\ \A t \in Tasks : FailsFatally(t) =>
             tasks[t].attempts = MAX_RETRIES + 1]_vars


\* the awaits of the handlers that change the graph on the backend: the PUT
\* of the edit form, the two POSTs of the create-child form, the DELETE
MutationPcs == {"edit_put", "cc_create", "cc_relate", "dn_delete"}

\* the message the catch of the handler suspended at pc shows
FailureMessage(pc) ==
    CASE pc = "edit_put" -> "update_failed"
      [] pc \in {"cc_create", "cc_relate"} -> "create_failed"
      [] pc = "dn_delete" -> "delete_failed"

\* the step in which the server call of a mutation handler fails for good
MutationFails(t) == FailsFatally(t) /\ tasks[t].pc \in MutationPcs

(* C36: when the server call of a mutation handler (create node, create    *)
(* relation, update, delete) fails, the handler applies none of its local  *)
(* store patch (the store is as it was, or emptied by the reload it        *)
(* starts), reports the failure to the user and triggers a reload (of the  *)
(* tree, or of the page after a failed delete); the error is caught in the *)
(* handler.                                                                *)
C36_FailedMutationPatchesNothing ==
    [][\A t \in Tasks : MutationFails(t) =>
          /\ \/ nodeMap' = nodeMap /\ parentMap' = parentMap
             \/ nodeMap' = EmptyMap /\ parentMap' = EmptyMap
          /\ FailureMessage(tasks[t].pc) \in messages'
          /\ tasks'[t].pc = "lrt_tree" \/ page' = "reloading"]_vars

\* the relation request of the create-child form has failed for good after
\* the node was created: the failure is reported and the reload is under way
C36_Witness ==
    /\ "create_failed" \in messages
    /\ redirect
    /\ Cardinality(SrvIds) = 3
    /\ nodeMap = EmptyMap
    /\ \E t \in Tasks : tasks[t].pc = "lrt_tree" /\ tasks[t].attempts = 1


-----------------------------------------------------------------------------
(* The filters of the cached client: part_000:330-400 with both search     *)
(* boxes empty, and its fetchAllStats, part_000:402-427.                   *)

\* the catch of fetchAllStats: every node of the store gets a zero entry
\* (part_000:422-425); entries of other ids stay
StatsZeroed(nm, stats) ==
    [k \in DOMAIN stats \cup DOMAIN nm |->
        IF k \in DOMAIN nm THEN [inboundCount |-> 0, outboundCount |-> 0]
        ELSE stats[k]]

\* the tail of applyFilters, part_000:389-399, with the synchronous
\* loadAndRenderVisuals(rootId) of part_000:1191-1214 on the stats cache
\* fetchAllStats left
FiltersTailCached(t, stats, conn, sf) ==
    LET rootId == IF stableRootId # Null THEN stableRootId
                  ELSE IF keyOrder # <<>> THEN keyOrder[1] ELSE Null
    IN  IF rootId = Null
        THEN /\ view' = View("nonodes")
             /\ tasks' = [tasks EXCEPT ![t] = IdleTask]
             /\ UNCHANGED <<nodeMap, keyOrder, parentMap, stableRootId,
                            renderedNodes, singleNodeMode, nodeToFocusId, lastFocus>>
        ELSE /\ singleNodeMode' = FALSE
             /\ IF rootId \notin DOMAIN nodeMap
                THEN LoadAndRenderTreeCached(t, nodeToFocusId)
                ELSE LET r == RenderNodeLocal(rootId, Null, 0, nodeMap, stats, conn,
                                              sf, FALSE, {})
                     IN  /\ nodeMap' = r.nm
                         /\ renderedNodes' = r.rendered
                         /\ view' = [kind |-> "tree", out |-> r.out,
                                     by |-> "loadAndRenderVisuals", root |-> rootId,
                                     vis |-> {}, raw |-> {},
                                     viewport |-> IF nodeToFocusId # Null
                                                  THEN "focus" ELSE "none"]
                         /\ lastFocus' = IF nodeToFocusId # Null
                                         THEN nodeToFocusId ELSE lastFocus
                         /\ nodeToFocusId' = Null
                         /\ tasks' = [tasks EXCEPT ![t] = IdleTask]
                         /\ UNCHANGED <<keyOrder, parentMap, stableRootId>>

\* the user sets the two selects and the change handler runs; fetchAllStats
\* returns at once when the cache holds an entry (part_000:404-406)
ApplyFiltersCached(t, conn, sf) ==
    /\ Awaiting(t, {"idle"})
    /\ connectionFilter' = conn
    /\ statusFilter' = sf
    /\ IF conn \in {"inbound", "outbound"} /\ nodeStats = EmptyMap
       THEN /\ tasks' = [tasks EXCEPT ![t] = Fetching(IdleTask, "af_stats")]
            /\ UNCHANGED <<nodeMap, keyOrder, parentMap, stableRootId, renderedNodes,
                           singleNodeMode, view, nodeToFocusId, lastFocus>>
       ELSE FiltersTailCached(t, nodeStats, conn, sf)
    /\ UNCHANGED <<nodeStats, retryCount, messages, redirect, linkModal, infoModal,
                   srvTree, srvClicks, cacheVars, page, preserveViewport,
                   lastViewport, timers>>

\* /stats/all answered: fetchWithRetry returns the parsed body (part_000:137),
\* fetchAllStats calls .json() on it (411), which throws, and its catch runs
FilterStatsArriveCached(t) ==
    /\ Awaiting(t, {"af_stats"})
    /\ retryCount' = 0
    /\ nodeStats' = StatsZeroed(nodeMap, nodeStats)
    /\ FiltersTailCached(t, StatsZeroed(nodeMap, nodeStats), connectionFilter,
                         statusFilter)
    /\ UNCHANGED <<connectionFilter, statusFilter, messages, redirect, linkModal,
                   infoModal, gestures, srvTree, srvClicks, cacheVars, page,
                   preserveViewport, lastViewport, timers>>

\* /stats/all failed for good: the catch of fetchAllStats, part_000:420-426
FilterStatsFatalCached(t) ==
    /\ Exhausted(t, {"af_stats"})
    /\ messages' = messages \cup {"fatal"}
    /\ nodeStats' = StatsZeroed(nodeMap, nodeStats)
    /\ FiltersTailCached(t, StatsZeroed(nodeMap, nodeStats), connectionFilter,
                         statusFilter)
    /\ UNCHANGED <<connectionFilter, statusFilter, linkModal, infoModal, gestures,
                   srvTree, srvClicks, cacheVars, page, preserveViewport,
                   lastViewport, timers>>

(* The cached client with its filters, on a network that may drop the      *)
(* /stats/all requests.                                                    *)
NextCachedFaulty ==
    \/ NextCached
    \/ \E t \in Tasks, f \in FilterChoices :
          Free(t) /\ Gesture(MaxGestures) /\ ApplyFiltersCached(t, f[1], f[2])
    \/ \E t \in Tasks : FilterStatsArriveCached(t)
    \/ \E t \in Tasks : tasks[t].pc = "af_stats" /\ NetworkFails(t)
    \/ \E t \in Tasks : FilterStatsFatalCached(t)
    \/ RedirectFires

SpecCachedFaulty == InitLinked /\ [][NextCachedFaulty]_vars

\* the step in which the bulk stats fetch of t fails for good
StatsFetchFails(t) ==
    FailsFatally(t) /\ tasks[t].pc \in {"af_stats", "lrt_stats", "lrv_stats"}

\* the connection test of isNodeVisible: a node without an entry passes
PassesConnection(id, stats, conn) ==
    ~ /\ id \in DOMAIN stats
      /\ \/ conn = "inbound" /\ stats[id].inboundCount = 0
         \/ conn = "outbound" /\ stats[id].outboundCount = 0

(* C37: when the bulk stats fetch fails the stats cache holds no entry     *)
(* afterwards, so that a following render under an 'inbound' or 'outbound' *)
(* connection filter lets every node pass the connection criterion.        *)
C37_FailedStatsLeaveCacheEmpty ==
    [][\A t \in Tasks : StatsFetchFails(t) =>
          /\ nodeStats' = EmptyMap
          /\ \A id \in DOMAIN nodeMap', conn \in {"inbound", "outbound"} :
                PassesConnection(id, nodeStats', conn)]_vars


\* the entry of c in the parent map names a stored node that lists c
BackedByStore(c) ==
    /\ c \in DOMAIN nodeMap
    /\ parentMap[c] \in DOMAIN nodeMap
    /\ ListsChild(parentMap[c], c)


(* The cached client on every backend tree of up to MaxEdges relations:    *)
(* the /tree answer may name a child it does not hold.                     *)
NextCachedRender ==
    \/ \E p \in Ids, c \in Ids : SetupRelation(p, c)
    \/ NextCached

SpecCachedRender == InitRender /\ [][NextCachedRender]_vars


(* C38: in every reachable state each parentMap entry c -> p is backed by  *)
(* the store: c and p are keys of nodeMap and c occurs in the children of  *)
(* nodeMap[p].                                                             *)
C38_ParentMapBackedByStore == \A c \in DOMAIN parentMap : BackedByStore(c)


\* the step in which handleSearch run by t lists its results
SearchDisplayed(t) ==
    /\ tasks[t].pc = "hs_search"
    /\ tasks'[t].pc = "idle"
    /\ linkModal'.status = "listed"

(* C39: a link search leaves the graph store unchanged: when the results   *)
(* are displayed nodeMap has the keys it had before and every stored node  *)
(* the fields it had, friendlyId and children included.                    *)
C39_SearchLeavesStoreAlone ==
    [][\A t \in Tasks : SearchDisplayed(t) =>
          /\ DOMAIN nodeMap' = DOMAIN nodeMap
          /\ \A id \in DOMAIN nodeMap : nodeMap'[id] = nodeMap[id]]_vars

=============================================================================
